---- MODULE Spec2Model ----
(***************************************************************************)
(* A model of the simulation core of the catch game: the object pool, the  *)
(* falling entities, the combo, lives and spawn systems, the fixed         *)
(* timestep loop and the Game component's update / menu handlers.          *)
(*                                                                         *)
(* Units.  Every duration is kept in thirds of a millisecond, so that the  *)
(* fixed timestep 1000/60 ms is the integer 50 and all timers of the code  *)
(* (1500 ms, 2000 ms, 1100 ms, 250 ms) stay integers.  The clocks and      *)
(* timers, which the code adds to and subtracts from tick by tick, are     *)
(* IEEE doubles: such a sum passes the point at which a timer fires a tick *)
(* later than the exact sum when rounding has left it just below.  The     *)
(* positions are exact rationals: no entity comes within a rounding error  *)
(* of a threshold it is compared with.                                     *)
(*                                                                         *)
(* Geometry.  Only the vertical axis is kept.  Which of the entities that  *)
(* overlap the player's catch zone vertically also overlap it              *)
(* horizontally depends on where the player was steered, and is an input   *)
(* of a tick.                                                              *)
(***************************************************************************)
EXTENDS Integers, Sequences, FiniteSets, TLC

VARIABLES
    pool,          \* ObjectPool.pool: the slots, in pool order
    lastAcquire,   \* what the latest acquire() returned
    gameState,     \* gameStateRef.current
    combo,         \* ComboSystem.state
    spawner,       \* SpawnSystem fields (recentLanes, spawnsSinceGood, ...)
    loop,          \* GameLoop fields and the frame callbacks the host holds
    frame,         \* position inside the running frame callback
    input,         \* useInput state and inputRef.current
    uiState,       \* the React uiState snapshot
    storage,       \* the persisted save data
    session,       \* log of the session: recordGamePlayed calls, game over, resume
    events         \* log of what the latest update(dt) call went through

vars == <<pool, lastAcquire, gameState, combo, spawner, loop, frame, input,
          uiState, storage, session, events>>

gameVars == <<gameState, combo, spawner, loop, frame, input, uiState, storage,
              session, events>>

(***************************************************************************)
(* Units and bounds                                                        *)
(***************************************************************************)
\* Milliseconds to model units (thirds of a millisecond).
Ms(x) == 3 * x

\* Largest slot index release(obj) and spawn-into are enumerated for, counted
\* from the front of the pool.
MaxPoolArg == 1

Min(a, b) == IF a < b THEN a ELSE b
Max(a, b) == IF a > b THEN a ELSE b

(***************************************************************************)
(* entities/FallingObject.ts                                               *)
(***************************************************************************)
DEFAULT_HEIGHT == 40
INITIAL_POOL_SIZE == 50

\* Vertical positions are kept in 1/7500 px, the unit in which one tick of fall
\* at any difficulty level is a whole number.
Px(n) == 7500 * n

\* new FallingObjectEntity()  (id, x, width and velocity are not kept)
NewFallingObject ==
    [active |-> FALSE, type |-> "good", spriteIndex |-> 0, points |-> 0,
     height |-> DEFAULT_HEIGHT, isSaveable |-> FALSE, y |-> 0,
     hitbox |-> [height |-> DEFAULT_HEIGHT, offsetY |-> 0]]

\* FallingObjectEntity.reset(): every field but active
EntityReset(e) ==
    [e EXCEPT !.type = "good", !.spriteIndex = 0, !.points = 0,
              !.height = DEFAULT_HEIGHT, !.isSaveable = FALSE, !.y = 0,
              !.hitbox = [height |-> DEFAULT_HEIGHT, offsetY |-> 0]]

\* GOOD_ITEMS[i] / BAD_ITEMS[i]: the same size and hitbox for every sprite
ItemPoints(type) == IF type = "good" THEN 10 ELSE -5
ItemHeight == 64
ItemHitbox == [height |-> 44, offsetY |-> 10]

\* FallingObjectEntity.spawn(x, type, speed, spriteIndex): y is taken from the
\* height the entity has before spawn assigns the sprite's height.
EntitySpawn(e, type, spriteIndex) ==
    [e EXCEPT !.y = -Px(e.height), !.type = type,
              !.spriteIndex = spriteIndex % 4,
              !.points = ItemPoints(type), !.height = ItemHeight,
              !.hitbox = ItemHitbox, !.isSaveable = FALSE]

\* An entity whose fields hold the default values the constructor assigns.
InResetState(e) == [e EXCEPT !.active = FALSE] = NewFallingObject

(***************************************************************************)
(* core/ObjectPool.ts                                                      *)
(***************************************************************************)
DEFAULT_INITIAL_SIZE == 50
MAX_POOL_SIZE == 200

\* constructor(factory, initialSize): initialSize inactive instances
NewPool(initialSize) ==
    [i \in 1..initialSize |-> [NewFallingObject EXCEPT !.active = FALSE]]

getPoolSize(p) == Len(p)
ActiveSlots(p) == {i \in 1..Len(p) : p[i].active}
getActiveCount(p) == Cardinality(ActiveSlots(p))

\* A scan that takes the last inactive slot in pool order, 0 if none.
LastInactive(p) ==
    IF \E i \in 1..Len(p) : ~p[i].active
    THEN CHOOSE i \in 1..Len(p) : ~p[i].active /\ \A j \in (i + 1)..Len(p) : p[j].active
    ELSE 0

\* The scan of acquire(): the first inactive slot in pool order, 0 if none.
FirstInactive(p) ==
    IF \E i \in 1..Len(p) : ~p[i].active
    THEN CHOOSE i \in 1..Len(p) : ~p[i].active /\ \A j \in 1..(i - 1) : p[j].active
    ELSE 0

\* acquire() whose growth test lets the pool reach one slot more than the maximum.
acquireOffByOne(p) ==
    LET i == FirstInactive(p) IN
    IF i # 0
    THEN [pool |-> [p EXCEPT ![i] = EntityReset([p[i] EXCEPT !.active = TRUE])],
          obj |-> i, wasReset |-> TRUE, grew |-> FALSE]
    ELSE IF Len(p) <= MAX_POOL_SIZE
    THEN [pool |-> Append(p, [NewFallingObject EXCEPT !.active = TRUE]),
          obj |-> Len(p) + 1, wasReset |-> FALSE, grew |-> TRUE]
    ELSE [pool |-> p, obj |-> 0, wasReset |-> FALSE, grew |-> FALSE]

\* acquire(): the pool afterwards, the slot returned (0 for null) and whether
\* reset() ran on it and whether the pool grew.
acquire(p) ==
    LET i == FirstInactive(p) IN
    IF i # 0
    THEN [pool |-> [p EXCEPT ![i] = EntityReset([p[i] EXCEPT !.active = TRUE])],
          obj |-> i, wasReset |-> TRUE, grew |-> FALSE]
    ELSE IF Len(p) < MAX_POOL_SIZE
    THEN [pool |-> Append(p, [NewFallingObject EXCEPT !.active = TRUE]),
          obj |-> Len(p) + 1, wasReset |-> FALSE, grew |-> TRUE]
    ELSE [pool |-> p, obj |-> 0, wasReset |-> FALSE, grew |-> FALSE]

\* release(obj) that marks the slot inactive and leaves its fields as they are.
releaseWithoutReset(p, i) == [p EXCEPT ![i].active = FALSE]

\* release(obj)
release(p, i) == [p EXCEPT ![i] = EntityReset([p[i] EXCEPT !.active = FALSE])]

\* releaseAll()
releaseAll(p) ==
    [i \in 1..Len(p) |->
        IF p[i].active THEN EntityReset([p[i] EXCEPT !.active = FALSE]) ELSE p[i]]

\* lastAcquire when the latest pool call was not acquire()
NoAcquire == [called |-> FALSE, obj |-> 0, wasReset |-> FALSE, grew |-> FALSE]

AcquireResult(r) ==
    [called |-> TRUE, obj |-> r.obj, wasReset |-> r.wasReset, grew |-> r.grew]

(***************************************************************************)
(* config/gameConfig.ts                                                    *)
(***************************************************************************)
BASE_SCORE == 10                       \* SCORE_CONFIG.goodItem.base
MINOR_PENALTY == 50                    \* SCORE_CONFIG.badItem.minorPenalty
MAJOR_PENALTY == 100                   \* SCORE_CONFIG.badItem.majorPenalty (not read by update)
COMBO_WINDOW == Ms(2000)               \* COMBO_CONFIG.window
\* COMBO_CONFIG.thresholds, the multipliers in tenths (1.5 is 15)
COMBO_THRESHOLDS ==
    <<[count |-> 5, multiplier |-> 15], [count |-> 10, multiplier |-> 20],
      [count |-> 20, multiplier |-> 30], [count |-> 50, multiplier |-> 50]>>
INITIAL_SPAWN_INTERVAL == Ms(1100)     \* DIFFICULTY_CONFIG.initial.spawnInterval
MAX_SPAWN_INTERVAL == Ms(250)          \* DIFFICULTY_CONFIG.max.spawnInterval
INITIAL_FALL_SPEED == 280              \* DIFFICULTY_CONFIG.initial.fallSpeed
MAX_FALL_SPEED == 700                  \* DIFFICULTY_CONFIG.max.fallSpeed
INITIAL_BAD_ITEM_RATIO == 35           \* DIFFICULTY_CONFIG.initial.badItemRatio, in percent
MAX_BAD_ITEM_RATIO == 65               \* DIFFICULTY_CONFIG.max.badItemRatio, in percent
SCORE_PER_LEVEL == 80
MAX_LEVEL == 25
MAX_ITEMS_ON_SCREEN == 8
LANES == 5
GUARANTEED_GOOD_EVERY == 7
GRACE_PERIOD_START == Ms(800)
RECENT_LANE_MEMORY == 2
INITIAL_LIVES == 3
MAX_LIVES == 3
INVULNERABILITY_DURATION == Ms(1500)

(***************************************************************************)
(* core/GameLoop.ts constants                                              *)
(***************************************************************************)
TIMESTEP == 50                         \* 1000 / 60 ms
MAX_FRAME_TIME == Ms(250)

(***************************************************************************)
(* Bounds of the game model                                                *)
(***************************************************************************)
\* Ticks of play explored in one session.
MaxTicks == 437
\* The player touches entities only in ticks that start a whole multiple of
\* EventGrid ticks after the spawn timer was last zeroed.
EventGrid == 67
\* Hits that would take the score above MaxScore are not enumerated.
MaxScore == 40
\* The time between two frame callbacks is MaxFrameGap milliseconds or, in a
\* session followed for ReplayTicks only, also MinFrameGap milliseconds.
MaxFrameGap == 251
MinFrameGap == 17
\* The pause key is pressed only while fewer than PauseTicks ticks of a session
\* followed for MaxTicks have run.
PauseTicks == 16
\* A run is followed for RunTicks ticks, and its rolls come out good while the
\* score is below CalmScore.
RunTicks == 690
CalmScore == 60
\* calculateDifficulty is called with the scores within ScoreMargin points of
\* a multiple of scorePerLevel, up to MaxLevelInput * scorePerLevel.
MaxLevelInput == 27
ScoreMargin == 1
\* A client of the spawn system calls update with CoarseStep milliseconds while
\* fewer than MaxElapsed have passed, and its rolls come out bad only while
\* fewer than BadRollActive entities are active.
CoarseStep == 400
MaxElapsed == 1200
BadRollActive == 2
\* The spawn block of update() is followed for SpawnTicks ticks.
SpawnTicks == 160
\* checkCollisions is called with up to MaxObjects objects, each placed
\* within EdgeSlack px of a position where its hitbox touches a zone's edge.
MaxObjects == 2
EdgeSlack == 1
\* Canvas heights from 1 to SmallCanvas px are passed to checkCollisions.
\* A run that climbs is followed for HurtTicks ticks; the player catches every
\* good item until the score is ClimbScore.
HurtTicks == 1650
ClimbScore == 560
\* A run for the milestone sounds is followed for MilestoneTicks ticks, and its
\* rolls come out bad only while the combo count is BadRollCombo or more.
MilestoneTicks == 1100
BadRollCombo == 5
SmallCanvas == 2
\* checkAABBCollision is called with boxes whose corners lie on the grid
\* 0..MaxCoord and whose sides are 1..MaxSide long.
MaxCoord == 3
MaxSide == 2
RandomSteps == 4
\* Items of a bad roll get a major sprite only in this lane.
MajorLane == 1
\* Frame callbacks the host holds at once.
MaxPending == 2
\* Milliseconds a menu, pause or game-over screen is shown before a button of
\* it is clicked.
ClickWait == 250
\* Ticks explored in a session started after a game was recorded, or run by
\* more than one chain of frame callbacks.
ReplayTicks == 17

(***************************************************************************)
(* JavaScript numbers of the clocks and timers (IEEE 754 doubles).         *)
(* The double Dbl(a, e) is a thirds of a millisecond plus e times          *)
(* 2^-60 / 3 ms; a is below 3 * 2^14 and e is small.  Whole milliseconds   *)
(* have e = 0, and the double 1000 / 60 = 0x1.0AAAAAAAAAAABp+4 is          *)
(* (50 * 2^48 + 1) / (3 * 2^48) ms = Dbl(50, 2^12).                         *)
(***************************************************************************)
Dbl(a, e) == [a |-> a, e |-> e]

DblMs(n) == Dbl(3 * n, 0)

Pow2(n) == 2^n

\* The largest k with 2^k <= n, for n >= 1
RECURSIVE Log2(_)
Log2(n) == IF n < 2 THEN 0 ELSE 1 + Log2(n \div 2)

\* k such that a magnitude of a >= 1 thirds of a millisecond (and e) lies in
\* [2^k, 2^(k+1)) ms.
Binade(a, e) ==
    LET k == IF a >= 3 THEN Log2(a \div 3) ELSE a - 3
    IN  IF 4 * a = 3 * Pow2(k + 2) /\ e < 0 THEN k - 1 ELSE k

\* e rounded to a multiple of ulp = 3 * h, r being what the magnitude is above
\* the multiple of ulp below it; ties go to the even mantissa.
RoundToUlp(e, r, h) ==
    IF 2 * r < 3 * h THEN e - r
    ELSE IF 2 * r > 3 * h THEN e - r + 3 * h
    ELSE IF ((e - r) \div h) % 2 = 0 THEN e - r ELSE e - r + 3 * h

\* The rounding of (a, e) in the binade k, with h = 2^(k+8).
RoundInBinade(a, e, k, h) ==
    RoundToUlp(e, (h * ((a * (IF k % 2 = 0 THEN 1 ELSE 2)) % 3) + e) % (3 * h), h)

\* The e of the double nearest to a positive magnitude (a, e), a >= 1: a
\* multiple of ulp = 2^(k-52) ms = 3 * 2^(k+8) units, ties to the even mantissa.
RoundMagnitude(a, e) ==
    RoundInBinade(a, e, Binade(a, e), Pow2(Binade(a, e) + 8))

\* Rounding of an exact sum or difference to a double.  Values below a third of
\* a millisecond only arise as differences of nearby doubles, which are exact.
DblRound(a, e) ==
    IF a = 0 THEN Dbl(0, e)
    ELSE IF a > 0 THEN Dbl(a, RoundMagnitude(a, e))
    ELSE Dbl(a, -RoundMagnitude(-a, -e))

DblAdd(x, y) == DblRound(x.a + y.a, x.e + y.e)
DblSub(x, y) == DblRound(x.a - y.a, x.e - y.e)
DblGe(x, y) == x.a > y.a \/ (x.a = y.a /\ x.e >= y.e)
DblGt(x, y) == DblGe(x, y) /\ x # y

\* The double 1000 / 60.  update is called with dt = TIMESTEP / 1000 and the
\* systems compute dt * 1000, which is this double again.
TIMESTEP_MS == Dbl(TIMESTEP, Pow2(12))

DblZero == Dbl(0, 0)

(***************************************************************************)
(* systems/ComboSystem.ts  (multiplier in tenths)                          *)
(***************************************************************************)
ComboInit ==
    [count |-> 0, multiplier |-> 10, timer |-> DblZero,
     maxTimer |-> Dbl(COMBO_WINDOW, 0)]

\* A threshold scan that looks at the first threshold only.
ScanFirstThreshold(count, mult, k) ==
    IF count >= COMBO_THRESHOLDS[1].count THEN COMBO_THRESHOLDS[1].multiplier
    ELSE mult

\* The threshold scan of hit(): the last threshold met sets the multiplier.
RECURSIVE ScanThresholds(_, _, _)
ScanThresholds(count, mult, k) ==
    IF k > Len(COMBO_THRESHOLDS) THEN mult
    ELSE ScanThresholds(count,
                        IF count >= COMBO_THRESHOLDS[k].count
                        THEN COMBO_THRESHOLDS[k].multiplier ELSE mult,
                        k + 1)

\* hit(isPerfect, isSave): the state afterwards
ComboHitKeepsTimer(c) ==
    [c EXCEPT !.count = c.count + 1,
              !.timer = IF DblGt(c.timer, DblZero) THEN c.timer ELSE c.maxTimer,
              !.multiplier = ScanThresholds(c.count + 1, c.multiplier, 1)]

ComboHit(c) ==
    [c EXCEPT !.count = c.count + 1, !.timer = c.maxTimer,
              !.multiplier = ScanThresholds(c.count + 1, c.multiplier, 1)]

\* hit(isPerfect, isSave) that multiplies by the multiplier it finds on entry
HitPointsBeforeScan(c, isPerfect, isSave) ==
    (BASE_SCORE * (IF isPerfect THEN 3 ELSE 2) * (IF isSave THEN 2 ELSE 1)
        * c.multiplier) \div 20

\* hit(isPerfect, isSave): the points returned, floor(base * 1.5? * 2? * m)
HitPoints(c, isPerfect, isSave) ==
    (BASE_SCORE * (IF isPerfect THEN 3 ELSE 2) * (IF isSave THEN 2 ELSE 1)
        * ComboHit(c).multiplier) \div 20

\* miss()
ComboMiss(c) == [c EXCEPT !.count = 0, !.multiplier = 10, !.timer = DblZero]

\* update(dt)
ComboUpdate(c, dt) ==
    LET timer == DblSub(c.timer, dt) IN
    IF DblGt(c.timer, DblZero)
    THEN IF ~DblGt(timer, DblZero) THEN ComboMiss([c EXCEPT !.timer = DblZero])
         ELSE [c EXCEPT !.timer = timer]
    ELSE c

\* reset()
ComboReset(c) == ComboInit

(***************************************************************************)
(* systems/DifficultySystem.ts                                             *)
(***************************************************************************)
\* A level that is not capped at maxLevel.
DifficultyLevelUncapped(score) == score \div SCORE_PER_LEVEL

\* calculateDifficulty(score).level
DifficultyLevel(score) == Min(score \div SCORE_PER_LEVEL, MAX_LEVEL)

\* calculateDifficulty(score).spawnInterval, times 1250: lerp(initial, max,
\* t * (0.5 + 0.5 * t)) with t = level / maxLevel, whose eased value is
\* level * (maxLevel + level) / (2 * maxLevel^2).
SpawnInterval1250(level) ==
    INITIAL_SPAWN_INTERVAL * 2 * MAX_LEVEL * MAX_LEVEL
        - (INITIAL_SPAWN_INTERVAL - MAX_SPAWN_INTERVAL) * level * (MAX_LEVEL + level)

\* calculateDifficulty(score).badItemRatio in percent, times 1250
BadItemRatio1250(level) ==
    INITIAL_BAD_ITEM_RATIO * 2 * MAX_LEVEL * MAX_LEVEL
        + (MAX_BAD_ITEM_RATIO - INITIAL_BAD_ITEM_RATIO) * level * (MAX_LEVEL + level)

\* calculateDifficulty(score) as the game state keeps it: spawnInterval,
\* fallSpeed and badItemRatio are functions of the level.
calculateDifficulty(score) == [level |-> DifficultyLevel(score)]

(***************************************************************************)
(* systems/LivesSystem.ts                                                  *)
(***************************************************************************)
\* loseLife that ends the game only once lives has gone below zero.
loseLifeLateGameOver(state) ==
    IF state.isInvulnerable THEN state
    ELSE [state EXCEPT !.lives = state.lives - 1,
                       !.isInvulnerable = TRUE,
                       !.invulnerabilityTimer = Dbl(INVULNERABILITY_DURATION, 0),
                       !.status = IF state.lives - 1 < 0 THEN "gameOver"
                                  ELSE state.status]

\* loseLife without its invulnerability check.
loseLifeUnguarded(state) ==
    [state EXCEPT !.lives = state.lives - 1,
                  !.isInvulnerable = TRUE,
                  !.invulnerabilityTimer = Dbl(INVULNERABILITY_DURATION, 0),
                  !.status = IF state.lives - 1 <= 0 THEN "gameOver"
                             ELSE state.status]

\* loseLife(state)
loseLife(state) ==
    IF state.isInvulnerable THEN state
    ELSE [state EXCEPT !.lives = state.lives - 1,
                       !.isInvulnerable = TRUE,
                       !.invulnerabilityTimer = Dbl(INVULNERABILITY_DURATION, 0),
                       !.status = IF state.lives - 1 <= 0 THEN "gameOver"
                                  ELSE state.status]

\* updateInvulnerability(state, dt)
updateInvulnerability(state, dt) ==
    IF ~state.isInvulnerable THEN state
    ELSE LET timer == DblSub(state.invulnerabilityTimer, dt) IN
         IF ~DblGt(timer, DblZero)
         THEN [state EXCEPT !.isInvulnerable = FALSE,
                            !.invulnerabilityTimer = DblZero]
         ELSE [state EXCEPT !.invulnerabilityTimer = timer]

(***************************************************************************)
(* core/SpawnSystem.ts                                                     *)
(***************************************************************************)
SpawnerInit ==
    [recentLanes |-> <<>>, spawnsSinceGood |-> 0, elapsedTime |-> DblZero,
     spawnAccumulator |-> DblZero]

SeqRange(q) == {q[k] : k \in 1..Len(q)}

\* getAvailableLanes() that leaves out the latest lane only
getAvailableLanesButLatest(sp) ==
    {lane \in 0..(LANES - 1) :
        sp.recentLanes = <<>> \/ lane # sp.recentLanes[Len(sp.recentLanes)]}

\* getAvailableLanes()
getAvailableLanes(sp) == {lane \in 0..(LANES - 1) : lane \notin SeqRange(sp.recentLanes)}

\* update(dt)
SpawnerUpdate(sp, dt) ==
    [sp EXCEPT !.elapsedTime = DblAdd(sp.elapsedTime, dt),
               !.spawnAccumulator = DblAdd(sp.spawnAccumulator, dt)]

\* isReadyToSpawn that compares the elapsed time with the interval
isReadyToSpawnElapsed(sp, difficulty) ==
    sp.elapsedTime.a * 2 * MAX_LEVEL * MAX_LEVEL >= SpawnInterval1250(difficulty.level)

\* isReadyToSpawn(difficulty).  The interval is a whole number of thirds of a
\* millisecond at levels 0 and maxLevel only, where lerp returns the double
\* 1100 and 250; at the other levels the accumulator never comes within a
\* rounding error of it.
isReadyToSpawn(sp, difficulty) ==
    LET acc1250 == sp.spawnAccumulator.a * 2 * MAX_LEVEL * MAX_LEVEL
        interval1250 == SpawnInterval1250(difficulty.level)
    IN  \/ acc1250 > interval1250
        \/ acc1250 = interval1250 /\ sp.spawnAccumulator.e >= 0

\* determineItemType without the grace period
determineItemTypeNoGrace(sp, rollBad) ==
    IF sp.spawnsSinceGood >= GUARANTEED_GOOD_EVERY THEN "good"
    ELSE IF rollBad THEN "bad"
    ELSE "good"

\* determineItemType(difficulty); rollBad is the outcome of
\* Math.random() < difficulty.badItemRatio
determineItemType(sp, rollBad) ==
    IF ~DblGe(sp.elapsedTime, Dbl(GRACE_PERIOD_START, 0)) THEN "good"
    ELSE IF sp.spawnsSinceGood >= GUARANTEED_GOOD_EVERY THEN "good"
    ELSE IF rollBad THEN "bad"
    ELSE "good"

\* The draws of a tick that does not call spawn().
NoDraw == [lane |-> 0, rollBad |-> FALSE, spriteIndex |-> 0]

\* The outcomes of the random draws of one spawn() that are enumerated: the
\* lowest lane selectLane can return; a good roll with sprite index 1 and a bad
\* roll with sprite index 1 (minor) or, in lane MajorLane, 2 (major).
SpawnDraws(sp) ==
    LET avail == getAvailableLanes(sp)
        lanes == IF avail = {} THEN {0}
                 ELSE {CHOOSE l \in avail : \A m \in avail : l <= m}
        sprites == IF MajorLane \in lanes THEN {1, 2} ELSE {1}
    IN  {[lane |-> l, rollBad |-> FALSE, spriteIndex |-> 1] : l \in lanes}
        \cup {[lane |-> l, rollBad |-> TRUE, spriteIndex |-> i] :
                 l \in lanes, i \in sprites}

\* spawn that refuses only once activeCount is above maxItemsOnScreen
spawnOverfull(sp, p, activeCount, draw) ==
    IF activeCount > MAX_ITEMS_ON_SCREEN
    THEN [spawner |-> sp, pool |-> p, obj |-> 0, acquired |-> NoAcquire]
    ELSE IF getAvailableLanes(sp) = {}
    THEN [spawner |-> [sp EXCEPT !.recentLanes = <<>>], pool |-> p, obj |-> 0,
          acquired |-> NoAcquire]
    ELSE
      LET pushed == Append(sp.recentLanes, draw.lane)
          lanes == IF Len(pushed) > RECENT_LANE_MEMORY THEN Tail(pushed) ELSE pushed
          type == determineItemType(sp, draw.rollBad)
          sp1 == [sp EXCEPT !.recentLanes = lanes,
                            !.spawnsSinceGood =
                                IF type = "good" THEN 0 ELSE sp.spawnsSinceGood + 1]
          r == acquire(p)
      IN  IF r.obj = 0
          THEN [spawner |-> sp1, pool |-> r.pool, obj |-> 0,
                acquired |-> AcquireResult(r)]
          ELSE [spawner |-> sp1,
                pool |-> [r.pool EXCEPT ![r.obj] =
                             EntitySpawn(r.pool[r.obj], type, draw.spriteIndex)],
                obj |-> r.obj, acquired |-> AcquireResult(r)]

\* spawn that finds no lane as soon as the lane memory is full
spawnMemoryFull(sp, p, activeCount, draw) ==
    IF activeCount >= MAX_ITEMS_ON_SCREEN
    THEN [spawner |-> sp, pool |-> p, obj |-> 0, acquired |-> NoAcquire]
    ELSE IF Len(sp.recentLanes) >= RECENT_LANE_MEMORY
    THEN [spawner |-> [sp EXCEPT !.recentLanes = <<>>], pool |-> p, obj |-> 0,
          acquired |-> NoAcquire]
    ELSE
      LET pushed == Append(sp.recentLanes, draw.lane)
          lanes == IF Len(pushed) > RECENT_LANE_MEMORY THEN Tail(pushed) ELSE pushed
          type == determineItemType(sp, draw.rollBad)
          sp1 == [sp EXCEPT !.recentLanes = lanes,
                            !.spawnsSinceGood =
                                IF type = "good" THEN 0 ELSE sp.spawnsSinceGood + 1]
          r == acquire(p)
      IN  IF r.obj = 0
          THEN [spawner |-> sp1, pool |-> r.pool, obj |-> 0,
                acquired |-> AcquireResult(r)]
          ELSE [spawner |-> sp1,
                pool |-> [r.pool EXCEPT ![r.obj] =
                             EntitySpawn(r.pool[r.obj], type, draw.spriteIndex)],
                obj |-> r.obj, acquired |-> AcquireResult(r)]

\* spawn(difficulty, activeCount): the scheduler and pool afterwards, the slot
\* spawned into (0 for null) and the result of the acquire() it made, if any.
spawn(sp, p, activeCount, draw) ==
    IF activeCount >= MAX_ITEMS_ON_SCREEN
    THEN [spawner |-> sp, pool |-> p, obj |-> 0, acquired |-> NoAcquire]
    ELSE IF getAvailableLanes(sp) = {}
    THEN [spawner |-> [sp EXCEPT !.recentLanes = <<>>], pool |-> p, obj |-> 0,
          acquired |-> NoAcquire]
    ELSE
      LET pushed == Append(sp.recentLanes, draw.lane)
          lanes == IF Len(pushed) > RECENT_LANE_MEMORY THEN Tail(pushed) ELSE pushed
          type == determineItemType(sp, draw.rollBad)
          sp1 == [sp EXCEPT !.recentLanes = lanes,
                            !.spawnsSinceGood =
                                IF type = "good" THEN 0 ELSE sp.spawnsSinceGood + 1]
          r == acquire(p)
      IN  IF r.obj = 0
          THEN [spawner |-> sp1, pool |-> r.pool, obj |-> 0,
                acquired |-> AcquireResult(r)]
          ELSE [spawner |-> sp1,
                pool |-> [r.pool EXCEPT ![r.obj] =
                             EntitySpawn(r.pool[r.obj], type, draw.spriteIndex)],
                obj |-> r.obj, acquired |-> AcquireResult(r)]

\* reset(): the scheduler fields; the pool is emptied with releaseAll()
SpawnerReset == SpawnerInit

(***************************************************************************)
(* systems/MovementSystem.ts: updateFallingObjects                         *)
(***************************************************************************)
BASE_HEIGHT == 711
SAVE_ZONE == 50

\* difficulty.fallSpeed * dt for dt = 1/60 s, in 1/7500 px: fallSpeed is
\* lerp(280, 700, eased) px/s with eased = level * (maxLevel + level) / 1250.
FallStep(difficulty) ==
    35000 + 42 * difficulty.level * (MAX_LEVEL + difficulty.level)

\* The loop body of updateFallingObjects for one active entity.
MoveEntity(e, difficulty) ==
    LET y == e.y + FallStep(difficulty)
        moved == [e EXCEPT !.y = y,
                           !.isSaveable = e.isSaveable \/ y > Px(BASE_HEIGHT - SAVE_ZONE)]
    IN  IF y > Px(BASE_HEIGHT)
        THEN EntityReset([moved EXCEPT !.active = FALSE])
        ELSE moved

\* updateFallingObjects(objects, pool, difficulty, dt, canvasHeight)
updateFallingObjects(p, difficulty) ==
    [i \in 1..Len(p) |-> IF p[i].active THEN MoveEntity(p[i], difficulty) ELSE p[i]]

(***************************************************************************)
(* core/CollisionSystem.ts: the vertical side of checkCollisions.  The     *)
(* horizontal overlap depends on where the player was steered and is an    *)
(* input of the tick.                                                      *)
(***************************************************************************)
CATCH_ZONE_PADDING == 10
NEUTRAL_ZONE_HEIGHT == 50

\* createPlayer().y and PLAYER_ASSET.hitbox
PlayerY == BASE_HEIGHT - 100 - 20
PlayerHitbox == [height |-> 70, offsetY |-> 15]

\* getCatchZone(player) and getPerfectZone(player): top edge and height
CatchZone ==
    [y |-> Px(PlayerY + PlayerHitbox.offsetY - CATCH_ZONE_PADDING),
     height |-> Px(PlayerHitbox.height + 2 * CATCH_ZONE_PADDING)]

PerfectZone ==
    [y |-> Px(PlayerY + PlayerHitbox.offsetY) + Px(PlayerHitbox.height) \div 4,
     height |-> Px(PlayerHitbox.height) \div 2]

\* checkAABBCollision(zone, objectBox), vertical axis
OverlapsY(zone, e) ==
    /\ zone.y < e.y + Px(e.hitbox.offsetY) + Px(e.hitbox.height)
    /\ zone.y + zone.height > e.y + Px(e.hitbox.offsetY)

InNeutralZone(e) == e.y + Px(e.height) > Px(BASE_HEIGHT - NEUTRAL_ZONE_HEIGHT)

\* Entities checkCollisions can report, and those it can report as perfect.
Catchable(p) ==
    {i \in 1..Len(p) : p[i].active /\ ~InNeutralZone(p[i]) /\ OverlapsY(CatchZone, p[i])}

PerfectCatchable(p) == {i \in Catchable(p) : OverlapsY(PerfectZone, p[i])}

(***************************************************************************)
(* utils/storage.ts                                                        *)
(***************************************************************************)
StorageInit == [totalGamesPlayed |-> 0, highScore |-> 0]

\* recordGamePlayed(finalScore)  (totalScore is not kept)
recordGamePlayed(st, finalScore) ==
    [st EXCEPT !.totalGamesPlayed = st.totalGamesPlayed + 1,
               !.highScore = Max(st.highScore, finalScore)]

\* getHighScore()
getHighScore(st) == st.highScore

(***************************************************************************)
(* core/GameLoop.ts, with what the host holds for it                       *)
(*   sinceRef   performance.now() - lastTimestamp, in whole milliseconds   *)
(*   refIsNow   lastTimestamp was read from performance.now() (by start()  *)
(*              or the visibility handler), not taken from a frame         *)
(*   pending    frame callbacks the host holds (requested, neither run nor *)
(*              cancelled)                                                 *)
(*   idPending  animationFrameId is not null and names one of them (the    *)
(*              latest requested)                                          *)
(*   listening  handleVisibilityChange is registered on the document       *)
(*   hidden     document.hidden                                            *)
(*   ticks      update calls made by the latest frame callback             *)
(*   frames     frame callbacks run, counted in the loop's own             *)
(*              specification only                                         *)
(***************************************************************************)
LoopInit ==
    [isRunning |-> FALSE, accumulator |-> Dbl(0, 0), sinceRef |-> 0,
     refIsNow |-> FALSE, pending |-> 0, idPending |-> FALSE,
     listening |-> FALSE, hidden |-> FALSE, ticks |-> 0, frames |-> 0]

\* requestAnimationFrame(this.loop), its id stored in animationFrameId
RequestFrame(l) == [l EXCEPT !.pending = l.pending + 1, !.idPending = TRUE]

\* cancelAnimationFrame(this.animationFrameId); this.animationFrameId = null
CancelFrame(l) ==
    IF l.idPending THEN [l EXCEPT !.pending = l.pending - 1, !.idPending = FALSE]
    ELSE l

\* lastTimestamp = performance.now(); accumulator = 0
ResetClock(l) ==
    [l EXCEPT !.sinceRef = 0, !.refIsNow = TRUE, !.accumulator = Dbl(0, 0)]

\* start() without its test of isRunning
LoopStartUnguarded(l) ==
    RequestFrame([ResetClock(l) EXCEPT !.isRunning = TRUE, !.listening = TRUE])

\* start() that leaves lastTimestamp and the accumulator as they are
LoopStartKeepsClock(l) ==
    IF l.isRunning THEN l
    ELSE RequestFrame([l EXCEPT !.isRunning = TRUE, !.listening = TRUE])

\* start()
LoopStart(l) ==
    IF l.isRunning THEN l
    ELSE RequestFrame([ResetClock(l) EXCEPT !.isRunning = TRUE, !.listening = TRUE])

\* stop()
LoopStop(l) ==
    IF ~l.isRunning THEN l
    ELSE [CancelFrame([l EXCEPT !.isRunning = FALSE]) EXCEPT !.listening = FALSE]

\* The host takes its oldest frame callback to call it.
TakeFrame(l) ==
    [l EXCEPT !.pending = @ - 1, !.idPending = l.idPending /\ l.pending > 1]

\* Real time passes.
Elapse(l, ms) == [l EXCEPT !.sinceRef = @ + ms]

\* loop(timestamp) of a running loop up to its while loop; the timestamp is ts
\* milliseconds after lastTimestamp.
LoopBegin(l, ts) ==
    LET frameTime == IF DblGt(DblMs(ts), Dbl(MAX_FRAME_TIME, 0)) THEN Dbl(MAX_FRAME_TIME, 0)
                     ELSE DblMs(ts)
    IN  [l EXCEPT !.accumulator = DblAdd(@, frameTime),
                  !.sinceRef = @ - ts, !.refIsNow = FALSE, !.ticks = 0]

\* The condition of the while loop of loop(timestamp)
LoopCatchingUp(l) == DblGe(l.accumulator, TIMESTEP_MS)

\* One pass of the while loop, after its update call
LoopTick(l) ==
    [l EXCEPT !.accumulator = DblSub(@, TIMESTEP_MS), !.ticks = @ + 1]

\* The render call of loop(timestamp) gets alpha = accumulator / TIMESTEP, which
\* is at least 0 and below 1 exactly if 0 <= accumulator < TIMESTEP.
AlphaInRange(l) == DblGe(l.accumulator, Dbl(0, 0)) /\ ~LoopCatchingUp(l)

\* handleVisibilityChange() when the document has become hidden
LoopHidden(l) ==
    IF l.listening THEN CancelFrame([l EXCEPT !.hidden = TRUE])
    ELSE [l EXCEPT !.hidden = TRUE]

\* handleVisibilityChange() when the document has become visible
LoopVisible(l) ==
    IF l.listening /\ l.isRunning
    THEN RequestFrame(ResetClock([l EXCEPT !.hidden = FALSE]))
    ELSE [l EXCEPT !.hidden = FALSE]

(***************************************************************************)
(* components/Game/Game.tsx: state construction and the UI snapshot        *)
(***************************************************************************)
\* createInitialGameState that starts with the maxLives of the first uiState.
createInitialGameStateFiveLives(highScore) ==
    [status |-> "menu", score |-> 0, lives |-> 5,
     maxLives |-> MAX_LIVES, isInvulnerable |-> FALSE,
     invulnerabilityTimer |-> DblZero, difficulty |-> [level |-> 0],
     elapsedTime |-> DblZero, highScore |-> highScore]

\* createInitialGameState(highScore)
createInitialGameState(highScore) ==
    [status |-> "menu", score |-> 0, lives |-> INITIAL_LIVES,
     maxLives |-> MAX_LIVES, isInvulnerable |-> FALSE,
     invulnerabilityTimer |-> DblZero, difficulty |-> [level |-> 0],
     elapsedTime |-> DblZero, highScore |-> highScore]

\* useState({...}): the first uiState
UiInit(highScore) ==
    [status |-> "menu", score |-> 0, lives |-> 3, maxLives |-> 5,
     highScore |-> highScore, isNewHighScore |-> FALSE]

\* syncUiState()
syncUiState(ui, state) ==
    [ui EXCEPT !.status = state.status, !.score = state.score,
               !.lives = state.lives, !.maxLives = state.maxLives,
               !.highScore = state.highScore]

InputInit == [pause |-> FALSE, ref |-> FALSE]

SessionInit == [records |-> 0, over |-> FALSE, resumed |-> FALSE]

\* What one update(dt) call went through: it returned at the status check; a
\* good item was missed; loseLife was called; the good and bad items caught;
\* the points the penalties took off the score.
NoEvents ==
    [skipped |-> FALSE, missed |-> FALSE, lostLife |-> FALSE, good |-> 0,
     bad |-> 0, lostPoints |-> 0]

\* The game-over block of update(): the high-score comparison on the state, the
\* recordGamePlayed call and the setUiState call.
IsNewHighScore(state) == state.score > state.highScore

GameOverState(state) ==
    IF IsNewHighScore(state) THEN [state EXCEPT !.highScore = state.score] ELSE state

GameOverUi(ui, state) ==
    [ui EXCEPT !.status = "gameOver", !.isNewHighScore = IsNewHighScore(state),
               !.highScore = GameOverState(state).highScore]

(***************************************************************************)
(* components/Game/Game.tsx: update(dt), playing and not pausing           *)
(***************************************************************************)
\* Slots of S in pool order.
RECURSIVE InPoolOrder(_)
InPoolOrder(S) ==
    IF S = {} THEN <<>>
    ELSE LET m == CHOOSE i \in S : \A j \in S : i <= j
         IN  <<m>> \o InPoolOrder(S \ {m})

\* objectsNearBottom, taken before the entities move
objectsNearBottom(p) ==
    {i \in 1..Len(p) : /\ p[i].active
                       /\ p[i].y + Px(p[i].height) >= Px(BASE_HEIGHT - 10)
                       /\ p[i].type = "good"}

\* The entities the missed loop acts on, given the pool after the move.
MissedGood(before, after) ==
    {i \in objectsNearBottom(before) : ~after[i].active /\ after[i].type = "good"}

\* A status check that lets update(dt) run on a finished game.
UpdateReturnsEarlyWhenPaused(state) == state.status \in {"menu", "paused"}

\* The status check at the top of update(dt)
UpdateReturnsEarly(state) == state.status # "playing"

\* The penalty without the clamp at zero.
ApplyPenaltyUnclamped(score, penalty) == score - penalty

\* gameStateRef.current.score = Math.max(0, score - penalty)
ApplyPenalty(score, penalty) == Max(0, score - penalty)

\* The penalty with the majorPenalty of SCORE_CONFIG for bad_3 and bad_4.
BadItemPenaltyConfigured(obj, score) ==
    IF obj.spriteIndex >= 2 THEN MAJOR_PENALTY ELSE MINOR_PENALTY

\* isMajorBad and penalty of the bad-item branch: bad_3 and bad_4 (spriteIndex
\* 2 and 3) cost the whole score, bad_1 and bad_2 minorPenalty.
BadItemPenalty(obj, score) ==
    LET isMajorBad == obj.spriteIndex >= 2
    IN  IF isMajorBad THEN score ELSE MINOR_PENALTY

\* One pass of the collision loop, for the entity in slot i.  t carries
\* gameStateRef.current, the combo, the pool, whether the loop has returned,
\* and the log of the call.
HandleCollision(t, i, isPerfect) ==
    LET obj == t.pool[i]
        released == release(t.pool, i)
    IN
    IF t.over THEN t
    ELSE IF obj.type = "good"
    THEN LET points == HitPoints(t.combo, isPerfect, obj.isSaveable)
             score == t.state.score + points
         IN  [t EXCEPT !.combo = ComboHit(t.combo),
                       !.state = [t.state EXCEPT !.score = score,
                                      !.difficulty = calculateDifficulty(score)],
                       !.pool = released,
                       !.events.good = @ + 1]
    ELSE LET penalty == BadItemPenalty(obj, t.state.score)
             scored == [t.state EXCEPT
                           !.score = ApplyPenalty(t.state.score, penalty)]
             hurt == IF ~scored.isInvulnerable THEN loseLife(scored) ELSE scored
         IN  [t EXCEPT !.combo = ComboMiss(t.combo),
                       !.state = hurt,
                       !.pool = released,
                       !.over = (hurt.status = "gameOver"),
                       !.events.bad = @ + 1,
                       !.events.lostPoints = @ + (t.state.score - scored.score),
                       !.events.lostLife = @ \/ ~scored.isInvulnerable]

RECURSIVE CollisionLoop(_, _, _)
CollisionLoop(t, order, perfect) ==
    IF order = <<>> THEN t
    ELSE CollisionLoop(HandleCollision(t, Head(order), Head(order) \in perfect),
                       Tail(order), perfect)

\* update(dt) from the movement step on.  hits / perfect: the collisions
\* checkCollisions reports and those of them that are perfect; draw: the random
\* draws of spawn().
UpdatePlaying(state, hits, perfect, draw) ==
    LET dt == TIMESTEP_MS
        moved == updateFallingObjects(pool, state.difficulty)
        missed == MissedGood(pool, moved) # {}
        \* every pass of the missed loop calls loseLife on the captured state
        lost == IF missed /\ ~state.isInvulnerable THEN loseLife(state) ELSE state
        log == [NoEvents EXCEPT !.missed = missed,
                                !.lostLife = missed /\ ~state.isInvulnerable]
    IN
    IF lost.status = "gameOver"
    THEN [state |-> lost, combo |-> combo, spawner |-> spawner, pool |-> moved,
          acquired |-> NoAcquire, over |-> TRUE, events |-> log]
    ELSE
      LET combo1 == ComboUpdate(IF missed THEN ComboMiss(combo) ELSE combo, dt)
          sp1 == SpawnerUpdate(spawner, dt)
          timed == [updateInvulnerability(lost, dt) EXCEPT
                        !.elapsedTime = sp1.elapsedTime]
          ready == isReadyToSpawn(sp1, state.difficulty)
          sp == IF ready THEN spawn(sp1, moved, getActiveCount(moved), draw)
                ELSE [spawner |-> sp1, pool |-> moved, obj |-> 0,
                      acquired |-> NoAcquire]
          sp2 == IF sp.obj # 0 THEN [sp.spawner EXCEPT !.spawnAccumulator = DblZero]
                 ELSE sp.spawner
          t == CollisionLoop([state |-> timed, combo |-> combo1, pool |-> sp.pool,
                              over |-> FALSE, events |-> log],
                             InPoolOrder(hits), perfect)
      IN  [state |-> t.state, combo |-> t.combo, spawner |-> sp2, pool |-> t.pool,
           acquired |-> sp.acquired, over |-> t.over, events |-> t.events]

(***************************************************************************)
(* The game: frame callbacks, update(dt) and the handlers of the screens   *)
(***************************************************************************)
\* The variables the Game component's refs and hooks hold after the first render.
GameInit ==
    /\ storage = StorageInit
    /\ gameState = createInitialGameState(getHighScore(storage))
    /\ combo = ComboInit
    /\ spawner = SpawnerInit
    /\ loop = LoopInit
    /\ frame = "idle"
    /\ input = InputInit
    /\ uiState = UiInit(getHighScore(storage))
    /\ session = SessionInit
    /\ events = NoEvents

\* Ticks a session is followed for: MaxTicks, but only ReplayTicks once a game
\* was recorded or while the host holds more than one frame callback.
TickBudget ==
    IF storage.totalGamesPlayed = 0 /\ loop.pending <= 1 THEN MaxTicks
    ELSE ReplayTicks

\* timestamp - lastTimestamp of the coming frame callback, in milliseconds
FrameGaps ==
    IF TickBudget = MaxTicks THEN {MaxFrameGap} ELSE {MinFrameGap, MaxFrameGap}

\* The player is steered into falling entities only in these ticks.
OnGrid == (spawner.spawnAccumulator.a \div TIMESTEP) % EventGrid = 0

\* The pool as the collision check of the coming tick finds the old entities.
MovedPool == updateFallingObjects(pool, gameState.difficulty)

\* GameLoop.loop(timestamp) called while the loop is stopped: it returns.
LoopFrameStopped ==
    /\ frame = "idle"
    /\ loop.pending > 0
    /\ ~loop.isRunning
    /\ ~loop.hidden
    /\ loop' = TakeFrame(loop)
    /\ lastAcquire' = NoAcquire
    /\ events' = NoEvents
    /\ UNCHANGED <<pool, gameState, combo, spawner, frame, input, uiState,
                   storage, session>>

\* GameLoop.loop(timestamp) up to the while loop: the oldest callback the host
\* holds runs and adds the frame time to the accumulator.
LoopFrameBegin ==
    /\ frame = "idle"
    /\ loop.pending > 0
    /\ loop.isRunning
    /\ ~loop.hidden
    /\ \E gap \in FrameGaps :
          LET l == Elapse(TakeFrame(loop), gap) IN
          /\ gameState.status = "playing" =>
                spawner.elapsedTime.a + Min(Ms(gap), MAX_FRAME_TIME)
                    <= TickBudget * TIMESTEP
          /\ loop' = LoopBegin(l, l.sinceRef)
    /\ frame' = "ticks"
    /\ lastAcquire' = NoAcquire
    /\ events' = NoEvents
    /\ UNCHANGED <<pool, gameState, combo, spawner, input, uiState, storage,
                   session>>

\* One pass of the while loop of GameLoop.loop: update(TIMESTEP / 1000) and
\* accumulator -= TIMESTEP.
Update ==
    /\ frame = "ticks"
    /\ LoopCatchingUp(loop)
    /\ LET state == gameState IN
       IF UpdateReturnsEarly(state)
       THEN /\ loop' = LoopTick(loop)
            /\ lastAcquire' = NoAcquire
            /\ events' = [NoEvents EXCEPT !.skipped = TRUE]
            /\ UNCHANGED <<pool, gameState, combo, spawner, input, uiState,
                           storage, session>>
       ELSE IF input.ref
       THEN /\ input' = [input EXCEPT !.pause = FALSE]
            /\ gameState' = [state EXCEPT !.status = "paused"]
            /\ loop' = LoopTick(LoopStop(loop))
            /\ uiState' = syncUiState(uiState, gameState')
            /\ lastAcquire' = NoAcquire
            /\ events' = NoEvents
            /\ UNCHANGED <<pool, combo, spawner, storage, session>>
       ELSE
         \E hits \in (IF OnGrid THEN SUBSET Catchable(MovedPool) ELSE {{}}) :
         \E perfect \in SUBSET (hits \cap PerfectCatchable(MovedPool)) :
         \E draw \in (IF isReadyToSpawn(SpawnerUpdate(spawner, TIMESTEP_MS),
                                        state.difficulty)
                      THEN SpawnDraws(SpawnerUpdate(spawner, TIMESTEP_MS))
                      ELSE {NoDraw}) :
            \* the outcome of the tick, computed once
            \E r \in {UpdatePlaying(state, hits, perfect, draw)} :
            /\ r.state.score <= MaxScore
            /\ pool' = r.pool
            /\ lastAcquire' = r.acquired
            /\ events' = r.events
            /\ combo' = r.combo
            /\ spawner' = r.spawner
            /\ gameState' = IF r.over THEN GameOverState(r.state) ELSE r.state
            /\ storage' = IF r.over THEN recordGamePlayed(storage, r.state.score)
                          ELSE storage
            /\ uiState' = IF r.over THEN GameOverUi(uiState, r.state)
                          ELSE syncUiState(uiState, r.state)
            /\ session' = IF r.over
                          THEN [session EXCEPT !.records = @ + 1, !.over = TRUE]
                          ELSE session
            /\ loop' = LoopTick(IF r.over THEN LoopStop(loop) ELSE loop)
            /\ UNCHANGED input
    /\ UNCHANGED frame

\* The tail of GameLoop.loop: render(alpha) and the request of the next frame.
LoopFrameEnd ==
    /\ frame = "ticks"
    /\ ~LoopCatchingUp(loop)
    /\ loop' = RequestFrame(loop)
    /\ frame' = "idle"
    /\ lastAcquire' = NoAcquire
    /\ events' = NoEvents
    /\ UNCHANGED <<pool, gameState, combo, spawner, input, uiState, storage,
                   session>>

\* The effect of Game that copies keyboardInput into inputRef.current, left
\* pending
KeepEffectsPending(i) == i

\* The effect of Game that copies keyboardInput into inputRef.current.  React
\* runs the pending effects of the last render before it renders the update a
\* click handler enqueues, which it does before the click event is over.
FlushEffects(i) == [i EXCEPT !.ref = i.pause]

\* keydown of a pause key (and its keyup): setInput, and the effect of the
\* render it causes, which React runs before the event is over.
KeyDownPause ==
    /\ frame = "idle"
    /\ ~input.pause
    /\ TickBudget = MaxTicks
    /\ spawner.elapsedTime.a < PauseTicks * TIMESTEP
    /\ input' = [input EXCEPT !.pause = TRUE, !.ref = TRUE]
    /\ lastAcquire' = NoAcquire
    /\ events' = NoEvents
    /\ UNCHANGED <<pool, gameState, combo, spawner, loop, frame, uiState, storage,
                   session>>

\* The effect that copies keyboardInput into inputRef.current, run by the
\* scheduler after the render that consumePause() scheduled from inside a frame
\* callback.
InputEffect ==
    /\ frame = "idle"
    /\ input.ref # input.pause
    /\ input' = FlushEffects(input)
    /\ lastAcquire' = NoAcquire
    /\ events' = NoEvents
    /\ UNCHANGED <<pool, gameState, combo, spawner, loop, frame, uiState, storage,
                   session>>

\* A click is handled between frame callbacks, and start() may add a callback
\* only while the host holds fewer than MaxPending.
ClickReady ==
    /\ frame = "idle"
    /\ loop.isRunning \/ loop.pending < MaxPending

\* resetGame(); startGameLoop()
StartGame ==
    /\ gameState' = [createInitialGameState(gameState.highScore) EXCEPT
                         !.status = "playing"]
    /\ spawner' = SpawnerReset
    /\ pool' = releaseAll(pool)
    /\ combo' = ComboInit
    /\ uiState' = syncUiState(uiState, gameState')
    /\ loop' = LoopStart(Elapse(loop, ClickWait))
    /\ session' = SessionInit
    /\ input' = FlushEffects(input)
    /\ lastAcquire' = NoAcquire
    /\ events' = NoEvents
    /\ UNCHANGED <<frame, storage>>

\* handleStartGame: the Start button of the main menu
handleStartGame == ClickReady /\ uiState.status = "menu" /\ StartGame

\* handlePlayAgain: the Play Again button of the game-over screen
handlePlayAgain == ClickReady /\ uiState.status = "gameOver" /\ StartGame

\* The body of handleResume.  The pause menu calls it from its Resume button
\* and from its keydown listener for Escape; Escape is a pause key too, and the
\* listener of useInput raises a pause request on the same event (keyed).
Resume(keyed) ==
    /\ gameState' = [gameState EXCEPT !.status = "playing"]
    /\ uiState' = syncUiState(uiState, gameState')
    /\ loop' = LoopStart(Elapse(loop, ClickWait))
    /\ input' = IF keyed THEN [pause |-> TRUE, ref |-> TRUE]
                 ELSE FlushEffects(input)
    /\ session' = [session EXCEPT !.resumed = TRUE]
    /\ lastAcquire' = NoAcquire
    /\ events' = NoEvents
    /\ UNCHANGED <<pool, combo, spawner, frame, storage>>

\* handleResume: the Resume button of the pause menu
handleResume == ClickReady /\ uiState.status = "paused" /\ Resume(FALSE)

\* handleKeyDown of the pause menu: Escape (and its keyup)
PauseMenuKeyDown ==
    /\ ClickReady
    /\ uiState.status = "paused"
    /\ TickBudget = MaxTicks
    /\ spawner.elapsedTime.a < PauseTicks * TIMESTEP
    /\ Resume(TRUE)

\* The body of handleQuit
Quit ==
    LET recorded == gameState.score > 0
        highScore == Max(gameState.highScore, gameState.score)
    IN  /\ loop' = LoopStop(loop)
        /\ storage' = IF recorded THEN recordGamePlayed(storage, gameState.score)
                      ELSE storage
        /\ session' = IF recorded
                      THEN [session EXCEPT !.records = session.records + 1]
                      ELSE session
        /\ gameState' = createInitialGameState(highScore)
        /\ spawner' = SpawnerReset
        /\ pool' = releaseAll(pool)
        /\ combo' = ComboInit
        /\ uiState' = [uiState EXCEPT !.status = "menu", !.highScore = highScore,
                                      !.isNewHighScore = FALSE]
        /\ input' = FlushEffects(input)
        /\ lastAcquire' = NoAcquire
        /\ events' = NoEvents
        /\ UNCHANGED frame

\* handleQuit: the Quit button of the pause menu
handleQuit == ClickReady /\ uiState.status = "paused" /\ Quit

\* handleMainMenu: the Main Menu button of the game-over screen
handleMainMenu == ClickReady /\ uiState.status = "gameOver" /\ Quit

Init ==
    /\ pool = NewPool(INITIAL_POOL_SIZE)
    /\ lastAcquire = NoAcquire
    /\ GameInit

Next ==
    \/ LoopFrameStopped
    \/ LoopFrameBegin
    \/ Update
    \/ LoopFrameEnd
    \/ KeyDownPause
    \/ InputEffect
    \/ handleStartGame
    \/ handlePlayAgain
    \/ handleResume
    \/ PauseMenuKeyDown
    \/ handleQuit
    \/ handleMainMenu

Spec == Init /\ [][Next]_vars

(***************************************************************************)
(* A run: one game in which the player takes every good item in the first  *)
(* tick it is a perfect catch, and may take bad items.  update(dt) is      *)
(* followed tick by tick; the frames the ticks are grouped in are left out.*)
(***************************************************************************)
GoodSlots(p) == {i \in 1..Len(p) : p[i].type = "good"}

\* update(dt) of a game that is playing with no pause requested
RunUpdate ==
    /\ frame = "idle"
    /\ ~UpdateReturnsEarly(gameState)
    /\ ~input.ref
    /\ spawner.elapsedTime.a < RunTicks * TIMESTEP
    /\ LET perfect == PerfectCatchable(MovedPool)
           sp1 == SpawnerUpdate(spawner, TIMESTEP_MS)
       IN
       \E bad \in SUBSET (perfect \ GoodSlots(MovedPool)) :
       \E draw \in (IF isReadyToSpawn(sp1, gameState.difficulty)
                    THEN {d \in SpawnDraws(sp1) :
                             d.rollBad => gameState.score >= CalmScore}
                    ELSE {NoDraw}) :
          LET hits == (perfect \cap GoodSlots(MovedPool)) \cup bad IN
          \E r \in {UpdatePlaying(gameState, hits, hits, draw)} :
              /\ pool' = r.pool
              /\ lastAcquire' = r.acquired
              /\ events' = r.events
              /\ combo' = r.combo
              /\ spawner' = r.spawner
              /\ gameState' = IF r.over THEN GameOverState(r.state) ELSE r.state
              /\ storage' = IF r.over THEN recordGamePlayed(storage, r.state.score)
                            ELSE storage
              /\ uiState' = IF r.over THEN GameOverUi(uiState, r.state)
                            ELSE syncUiState(uiState, r.state)
              /\ session' = IF r.over
                            THEN [session EXCEPT !.records = @ + 1, !.over = TRUE]
                            ELSE session
              /\ loop' = IF r.over THEN LoopStop(loop) ELSE loop
    /\ UNCHANGED <<frame, input>>

NextRun == handleStartGame \/ RunUpdate

SpecRun == Init /\ [][NextRun]_vars

(***************************************************************************)
(* A run that climbs and then lets go: update() tick by tick, the player   *)
(* catching every good item perfectly until the score is ClimbScore and no *)
(* good item after that, and any bad item it chooses at any time.          *)
(***************************************************************************)
\* invulnerabilityDuration in ticks of TIMESTEP: 90
InvulnerabilityTicks == INVULNERABILITY_DURATION \div TIMESTEP

\* The ticks since the latest tick that took a life, and what took it.
HurtLogInit == [lost |-> FALSE, sinceLoss |-> 0, byMiss |-> FALSE]

HurtUpdate ==
    /\ ~UpdateReturnsEarly(gameState)
    /\ spawner.elapsedTime.a < HurtTicks * TIMESTEP
    /\ LET perfect == PerfectCatchable(MovedPool)
           climbing == gameState.score < ClimbScore
           sp1 == SpawnerUpdate(spawner, TIMESTEP_MS)
       IN
       \E bad \in (IF climbing THEN {{}} ELSE SUBSET (perfect \ GoodSlots(MovedPool))) :
       \E draw \in (IF isReadyToSpawn(sp1, gameState.difficulty)
                    THEN {d \in SpawnDraws(sp1) :
                             /\ d.spriteIndex = 1
                             /\ d.rollBad => ~climbing}
                    ELSE {NoDraw}) :
          LET hits == IF climbing THEN perfect \cap GoodSlots(MovedPool) ELSE bad IN
          \E r \in {UpdatePlaying(gameState, hits, hits, draw)} :
              /\ pool' = r.pool
              /\ lastAcquire' = r.acquired
              /\ events' = r.events
              /\ combo' = r.combo
              /\ spawner' = r.spawner
              /\ gameState' = IF r.over THEN GameOverState(r.state) ELSE r.state
              /\ storage' = IF r.over THEN recordGamePlayed(storage, r.state.score)
                            ELSE storage
              /\ uiState' = IF r.over THEN GameOverUi(uiState, r.state)
                            ELSE syncUiState(uiState, r.state)
              /\ loop' = IF r.over THEN LoopStop(loop) ELSE loop
              /\ session' = IF r.events.lostLife
                            THEN [lost |-> TRUE, sinceLoss |-> 0,
                                  byMiss |-> r.events.missed]
                            ELSE [session EXCEPT
                                     !.sinceLoss =
                                        IF session.lost
                                        THEN Min(@ + 1, InvulnerabilityTicks + 1)
                                        ELSE 0]
    /\ UNCHANGED <<frame, input>>

\* The state handleStartGame leaves.
InitHurt ==
    /\ pool = NewPool(INITIAL_POOL_SIZE)
    /\ lastAcquire = NoAcquire
    /\ storage = StorageInit
    /\ gameState = [createInitialGameState(getHighScore(storage)) EXCEPT
                       !.status = "playing"]
    /\ combo = ComboInit
    /\ spawner = SpawnerReset
    /\ loop = LoopStart(LoopInit)
    /\ frame = "idle"
    /\ input = InputInit
    /\ uiState = syncUiState(UiInit(getHighScore(storage)), gameState)
    /\ session = HurtLogInit
    /\ events = NoEvents

NextHurt == HurtUpdate

SpecHurt == InitHurt /\ [][NextHurt]_vars

(***************************************************************************)
(* hooks/useSoundEffects.ts: the combo milestone sounds, and a run that    *)
(* feeds them: update() tick by tick, the player catching every good item  *)
(* perfectly and no bad one.                                               *)
(***************************************************************************)
COMBO_MILESTONES == {5, 10, 20}

\* lastComboMilestoneRef and the milestone sound played by the latest tick
\* (0: none)
SoundInit == [lastComboMilestone |-> 0, played |-> 0]

\* checkComboMilestone(comboCount): the first milestone that is met and lies
\* above lastComboMilestoneRef is played and remembered.
checkComboMilestone(sound, comboCount) ==
    LET met == {m \in COMBO_MILESTONES :
                   comboCount = m /\ sound.lastComboMilestone < m}
        after == IF met # {}
                 THEN [lastComboMilestone |-> comboCount, played |-> comboCount]
                 ELSE sound
    IN  IF comboCount = 0 THEN [after EXCEPT !.lastComboMilestone = 0] ELSE after

\* resetComboMilestone()
resetComboMilestone(sound) == [sound EXCEPT !.lastComboMilestone = 0]

\* The calls update() makes to the two in a tick with at most one collision:
\* resetComboMilestone in the missed loop (not reached when the miss ends the
\* game) and on a bad catch, checkComboMilestone after the hit of a good catch.
SoundAfterTick(sound, r) ==
    LET quiet == [sound EXCEPT !.played = 0]
        missed == IF r.events.missed /\ ~(r.over /\ r.events.bad = 0)
                  THEN resetComboMilestone(quiet) ELSE quiet
    IN  IF r.events.good > 0 THEN checkComboMilestone(missed, r.combo.count)
        ELSE IF r.events.bad > 0 THEN resetComboMilestone(missed)
        ELSE missed

MilestoneUpdate ==
    /\ ~UpdateReturnsEarly(gameState)
    /\ spawner.elapsedTime.a < MilestoneTicks * TIMESTEP
    /\ LET perfect == PerfectCatchable(MovedPool) \cap GoodSlots(MovedPool)
           hits == IF perfect = {} THEN {}
                   ELSE {CHOOSE i \in perfect : \A j \in perfect : i <= j}
           sp1 == SpawnerUpdate(spawner, TIMESTEP_MS)
       IN
       \E draw \in (IF isReadyToSpawn(sp1, gameState.difficulty)
                    THEN {d \in SpawnDraws(sp1) :
                             /\ d.spriteIndex = 1
                             /\ d.rollBad => combo.count >= BadRollCombo}
                    ELSE {NoDraw}) :
          \E r \in {UpdatePlaying(gameState, hits, hits, draw)} :
              /\ pool' = r.pool
              /\ lastAcquire' = r.acquired
              /\ events' = r.events
              /\ combo' = r.combo
              /\ spawner' = r.spawner
              /\ gameState' = IF r.over THEN GameOverState(r.state) ELSE r.state
              /\ storage' = IF r.over THEN recordGamePlayed(storage, r.state.score)
                            ELSE storage
              /\ uiState' = IF r.over THEN GameOverUi(uiState, r.state)
                            ELSE syncUiState(uiState, r.state)
              /\ loop' = IF r.over THEN LoopStop(loop) ELSE loop
              /\ session' = SoundAfterTick(session, r)
    /\ UNCHANGED <<frame, input>>

\* The state handleStartGame leaves (resetGame calls resetComboMilestone).
InitMilestone ==
    /\ pool = NewPool(INITIAL_POOL_SIZE)
    /\ lastAcquire = NoAcquire
    /\ storage = StorageInit
    /\ gameState = [createInitialGameState(getHighScore(storage)) EXCEPT
                       !.status = "playing"]
    /\ combo = ComboInit
    /\ spawner = SpawnerReset
    /\ loop = LoopStart(LoopInit)
    /\ frame = "idle"
    /\ input = InputInit
    /\ uiState = syncUiState(UiInit(getHighScore(storage)), gameState)
    /\ session = resetComboMilestone(SoundInit)
    /\ events = NoEvents

NextMilestone == MilestoneUpdate

SpecMilestone == InitMilestone /\ [][NextMilestone]_vars

(***************************************************************************)
(* calculateDifficulty on its own: a client that calls it with scores and  *)
(* keeps the two latest calls.                                             *)
(***************************************************************************)
ScoreInputs ==
    {s \in 0..(MaxLevelInput * SCORE_PER_LEVEL) :
        \/ s % SCORE_PER_LEVEL <= ScoreMargin
        \/ s % SCORE_PER_LEVEL >= SCORE_PER_LEVEL - ScoreMargin}

\* calculateDifficulty(score) with everything it returns: the level, the
\* spawnInterval (thirds of a millisecond, times 1250), the fallSpeed (as the
\* fall of one tick in 1/7500 px) and the badItemRatio (percent, times 1250).
DifficultyCall(score) ==
    LET difficulty == calculateDifficulty(score) IN
    [score |-> score, level |-> difficulty.level,
     spawnInterval |-> SpawnInterval1250(difficulty.level),
     fallSpeed |-> FallStep(difficulty),
     badItemRatio |-> BadItemRatio1250(difficulty.level)]

CallCalculateDifficulty ==
    /\ \E score \in ScoreInputs :
          events' = [earlier |-> events.latest, latest |-> DifficultyCall(score)]
    /\ UNCHANGED <<pool, lastAcquire, gameState, combo, spawner, loop, frame,
                   input, uiState, storage, session>>

\* createInitialDifficultyState() is the first call.
InitDifficulty ==
    /\ pool = NewPool(INITIAL_POOL_SIZE)
    /\ lastAcquire = NoAcquire
    /\ storage = StorageInit
    /\ gameState = createInitialGameState(getHighScore(storage))
    /\ combo = ComboInit
    /\ spawner = SpawnerInit
    /\ loop = LoopInit
    /\ frame = "idle"
    /\ input = InputInit
    /\ uiState = UiInit(getHighScore(storage))
    /\ session = SessionInit
    /\ events = [earlier |-> DifficultyCall(0), latest |-> DifficultyCall(0)]

NextDifficulty == CallCalculateDifficulty

SpecDifficulty == InitDifficulty /\ [][NextDifficulty]_vars

(***************************************************************************)
(* core/CollisionSystem.ts on both axes: checkCollisions on its own, called *)
(* once by a client with a player and a list of falling objects.           *)
(* Coordinates are in 1/7500 px.                                           *)
(***************************************************************************)
PERFECT_ZONE_SIZE_PERCENT == 50
BASE_WIDTH == 400

\* PLAYER_ASSET and the item assets: render size and hitbox, in px
PLAYER_ASSET ==
    [width |-> 100, height |-> 100,
     hitbox |-> [width |-> 70, height |-> 70, offsetX |-> 15, offsetY |-> 15]]

ITEM_ASSET ==
    [width |-> 64, height |-> ItemHeight,
     hitbox |-> [width |-> 44, height |-> ItemHitbox.height,
                 offsetX |-> 10, offsetY |-> ItemHitbox.offsetY]]

\* createPlayer(), moved to x by the input
PlayerAt(x) ==
    [x |-> x, y |-> Px(PlayerY),
     width |-> PLAYER_ASSET.width, height |-> PLAYER_ASSET.height]

\* checkAABBCollision(a, b)
checkAABBCollisionTouching(a, b) ==
    /\ a.x <= b.x + b.width
    /\ a.x + a.width >= b.x
    /\ a.y <= b.y + b.height
    /\ a.y + a.height >= b.y

checkAABBCollision(a, b) ==
    /\ a.x < b.x + b.width
    /\ a.x + a.width > b.x
    /\ a.y < b.y + b.height
    /\ a.y + a.height > b.y

\* getPlayerHitbox(player)
getPlayerHitbox(player) ==
    [x |-> player.x + Px(PLAYER_ASSET.hitbox.offsetX),
     y |-> player.y + Px(PLAYER_ASSET.hitbox.offsetY),
     width |-> Px(PLAYER_ASSET.hitbox.width),
     height |-> Px(PLAYER_ASSET.hitbox.height)]

\* getCatchZone(player)
getCatchZone(player) ==
    LET hitbox == getPlayerHitbox(player) IN
    [x |-> hitbox.x - Px(CATCH_ZONE_PADDING),
     y |-> hitbox.y - Px(CATCH_ZONE_PADDING),
     width |-> hitbox.width + Px(CATCH_ZONE_PADDING) * 2,
     height |-> hitbox.height + Px(CATCH_ZONE_PADDING) * 2]

\* getPerfectZone(player): perfectWidth = hitbox.width * 0.5, offsets
\* (hitbox.width - perfectWidth) / 2; every division here is exact.
getPerfectZone(player) ==
    LET hitbox == getPlayerHitbox(player)
        perfectWidth == (hitbox.width * PERFECT_ZONE_SIZE_PERCENT) \div 100
        perfectHeight == (hitbox.height * PERFECT_ZONE_SIZE_PERCENT) \div 100
        offsetX == (hitbox.width - perfectWidth) \div 2
        offsetY == (hitbox.height - perfectHeight) \div 2
    IN  [x |-> hitbox.x + offsetX, y |-> hitbox.y + offsetY,
         width |-> perfectWidth, height |-> perfectHeight]

\* The objectBox checkCollisions builds from an object's hitbox.
objectBox(obj) ==
    [x |-> obj.x + Px(obj.hitbox.offsetX),
     y |-> obj.y + Px(obj.hitbox.offsetY),
     width |-> Px(obj.hitbox.width),
     height |-> Px(obj.hitbox.height)]

\* obj.y + obj.height > neutralZoneStart, where neutralZoneStart is
\* canvasHeight - NEUTRAL_ZONE_HEIGHT for a canvasHeight that is truthy and
\* Infinity for one that is 0 or left out.
beyondNeutralZoneStartByHitbox(obj, canvasHeight) ==
    /\ canvasHeight # 0
    /\ obj.y + Px(obj.hitbox.offsetY + obj.hitbox.height)
          > Px(canvasHeight - NEUTRAL_ZONE_HEIGHT)

beyondNeutralZoneStart(obj, canvasHeight) ==
    /\ canvasHeight # 0
    /\ obj.y + Px(obj.height) > Px(canvasHeight - NEUTRAL_ZONE_HEIGHT)

\* checkCollisions(player, objects, canvasHeight); canvasHeight 0 stands for
\* the argument left out (neutralZoneStart is then Infinity).  An entry of
\* the result names its object by the index in objects.
checkCollisions(player, objects, canvasHeight) ==
    LET catchZone == getCatchZone(player)
        perfectZone == getPerfectZone(player)
        skipped(obj) == ~obj.active \/ beyondNeutralZoneStart(obj, canvasHeight)
        collisions[i \in 0..Len(objects)] ==
            IF i = 0 THEN <<>>
            ELSE IF skipped(objects[i]) THEN collisions[i - 1]
            ELSE IF checkAABBCollision(catchZone, objectBox(objects[i]))
                 THEN Append(collisions[i - 1],
                             [object |-> i,
                              type |-> IF checkAABBCollision(perfectZone,
                                                             objectBox(objects[i]))
                                       THEN "perfect" ELSE "normal"])
                 ELSE collisions[i - 1]
    IN  collisions[Len(objects)]

\* Player positions the client passes: the start position and the right end.
PlayerXs == {Px((BASE_WIDTH - PLAYER_ASSET.width) \div 2),
             Px(BASE_WIDTH - PLAYER_ASSET.width)}

CanvasHeights == {0, BASE_HEIGHT}

\* Object positions at which a hitbox edge lies on a zone edge (rounded down
\* to whole px), and up to EdgeSlack px to either side of them.
NearEdges(edges) ==
    {Px((e \div Px(1)) + k) : e \in edges, k \in (0 - EdgeSlack)..EdgeSlack}

ObjectXs(player) ==
    LET hb == ITEM_ASSET.hitbox
        zones == {getCatchZone(player), getPerfectZone(player)}
    IN  NearEdges({z.x - Px(hb.offsetX + hb.width) : z \in zones}
                  \cup {z.x + z.width - Px(hb.offsetX) : z \in zones})

ObjectYs(player) ==
    LET hb == ITEM_ASSET.hitbox
        zones == {getCatchZone(player), getPerfectZone(player)}
    IN  NearEdges({z.y - Px(hb.offsetY + hb.height) : z \in zones}
                  \cup {Px(BASE_HEIGHT - NEUTRAL_ZONE_HEIGHT - ITEM_ASSET.height)})

ObjectInputs(player) ==
    {[active |-> active, x |-> x, y |-> y,
      width |-> ITEM_ASSET.width, height |-> ITEM_ASSET.height,
      hitbox |-> ITEM_ASSET.hitbox] :
        active \in BOOLEAN, x \in ObjectXs(player), y \in ObjectYs(player)}

ObjectLists(player) ==
    UNION {[1..n -> ObjectInputs(player)] : n \in 0..MaxObjects}

\* What the client is about to pass, and after the call what came back.
CollisionInputs(player, objects, canvasHeight) ==
    [player |-> player, objects |-> objects, canvasHeight |-> canvasHeight,
     called |-> FALSE, result |-> <<>>]

CallCheckCollisions ==
    /\ ~events.called
    /\ events' = [events EXCEPT
                     !.called = TRUE,
                     !.result = checkCollisions(events.player, events.objects,
                                                events.canvasHeight)]
    /\ UNCHANGED <<pool, lastAcquire, gameState, combo, spawner, loop, frame,
                   input, uiState, storage, session>>

InitCollision ==
    /\ pool = NewPool(INITIAL_POOL_SIZE)
    /\ lastAcquire = NoAcquire
    /\ storage = StorageInit
    /\ gameState = createInitialGameState(getHighScore(storage))
    /\ combo = ComboInit
    /\ spawner = SpawnerInit
    /\ loop = LoopInit
    /\ frame = "idle"
    /\ input = InputInit
    /\ uiState = UiInit(getHighScore(storage))
    /\ session = SessionInit
    /\ \E x \in PlayerXs, canvasHeight \in CanvasHeights :
          \E objects \in ObjectLists(PlayerAt(x)) :
             events = CollisionInputs(PlayerAt(x), objects, canvasHeight)

NextCollision == CallCheckCollisions

SpecCollision == InitCollision /\ [][NextCollision]_vars

(***************************************************************************)
(* checkCollisions called with a canvas height every time, as update()     *)
(* calls it, with the player standing where createPlayer() puts it on a    *)
(* canvas of that height and the objects around the neutral zone's edge.   *)
(***************************************************************************)
\* Canvas heights the client passes: the smallest ones, the height of the
\* neutral zone itself, and the one of the game.
PassedHeights ==
    {h \in 1..BASE_HEIGHT :
        h <= SmallCanvas \/ h = NEUTRAL_ZONE_HEIGHT \/ h = BASE_HEIGHT}

\* createPlayer() on a canvas of the given height (bottomPadding is 20),
\* moved to x
PlayerOn(x, canvasHeight) ==
    [PlayerAt(x) EXCEPT
        !.y = Px(canvasHeight - PLAYER_ASSET.height - 20)]

\* Objects whose sprite ends on, just above or just below the line
\* canvasHeight - NEUTRAL_ZONE_HEIGHT.
NeutralEdgeObjects(player, canvasHeight) ==
    {[active |-> active, x |-> x, y |-> y,
      width |-> ITEM_ASSET.width, height |-> ITEM_ASSET.height,
      hitbox |-> ITEM_ASSET.hitbox] :
        active \in BOOLEAN, x \in ObjectXs(player),
        y \in NearEdges({Px(canvasHeight - NEUTRAL_ZONE_HEIGHT - ITEM_ASSET.height)})}

InitNeutral ==
    /\ pool = NewPool(INITIAL_POOL_SIZE)
    /\ lastAcquire = NoAcquire
    /\ storage = StorageInit
    /\ gameState = createInitialGameState(getHighScore(storage))
    /\ combo = ComboInit
    /\ spawner = SpawnerInit
    /\ loop = LoopInit
    /\ frame = "idle"
    /\ input = InputInit
    /\ uiState = UiInit(getHighScore(storage))
    /\ session = SessionInit
    /\ \E x \in PlayerXs, canvasHeight \in PassedHeights :
          \E n \in 0..MaxObjects :
             \E objects \in [1..n -> NeutralEdgeObjects(PlayerOn(x, canvasHeight),
                                                        canvasHeight)] :
                events = CollisionInputs(PlayerOn(x, canvasHeight), objects,
                                         canvasHeight)

SpecNeutral == InitNeutral /\ [][NextCollision]_vars

(***************************************************************************)
(* checkAABBCollision and getCollisionInfo on their own: a client that     *)
(* calls both with a pair of boxes on a grid of whole coordinates.         *)
(***************************************************************************)
\* getCollisionInfo(a, b)
getCollisionInfoTouching(a, b) ==
    LET overlapX == Min(a.x + a.width, b.x + b.width) - Max(a.x, b.x)
        overlapY == Min(a.y + a.height, b.y + b.height) - Max(a.y, b.y)
    IN  [colliding |-> overlapX >= 0 /\ overlapY >= 0,
         overlapX |-> Max(0, overlapX), overlapY |-> Max(0, overlapY)]

getCollisionInfo(a, b) ==
    LET overlapX == Min(a.x + a.width, b.x + b.width) - Max(a.x, b.x)
        overlapY == Min(a.y + a.height, b.y + b.height) - Max(a.y, b.y)
    IN  [colliding |-> overlapX > 0 /\ overlapY > 0,
         overlapX |-> Max(0, overlapX), overlapY |-> Max(0, overlapY)]

\* Boxes with corners on the grid 0..MaxCoord and sides of 1..MaxSide.
Boxes ==
    [x : 0..MaxCoord, y : 0..MaxCoord, width : 1..MaxSide, height : 1..MaxSide]

CallBoxFunctions ==
    /\ ~events.called
    /\ events' = [events EXCEPT
                     !.called = TRUE,
                     !.colliding = checkAABBCollision(events.a, events.b),
                     !.swapped = checkAABBCollision(events.b, events.a),
                     !.info = getCollisionInfo(events.a, events.b)]
    /\ UNCHANGED <<pool, lastAcquire, gameState, combo, spawner, loop, frame,
                   input, uiState, storage, session>>

InitBoxes ==
    /\ pool = NewPool(INITIAL_POOL_SIZE)
    /\ lastAcquire = NoAcquire
    /\ storage = StorageInit
    /\ gameState = createInitialGameState(getHighScore(storage))
    /\ combo = ComboInit
    /\ spawner = SpawnerInit
    /\ loop = LoopInit
    /\ frame = "idle"
    /\ input = InputInit
    /\ uiState = UiInit(getHighScore(storage))
    /\ session = SessionInit
    /\ \E a \in Boxes, b \in Boxes :
          events = [a |-> a, b |-> b, called |-> FALSE, colliding |-> FALSE,
                    swapped |-> FALSE,
                    info |-> [colliding |-> FALSE, overlapX |-> 0, overlapY |-> 0]]

NextBoxes == CallBoxFunctions

SpecBoxes == InitBoxes /\ [][NextBoxes]_vars

(***************************************************************************)
(* selectLane on its own: a client that calls it with the lanes left by a  *)
(* recent-lane memory and one outcome of Math.random().  Weights are in    *)
(* units of 1 / (2 * lanes), Math.random() is draw / RandomSteps.          *)
(***************************************************************************)
Abs(n) == IF n < 0 THEN -n ELSE n

\* The weight selectLane gives a lane: 1 - (|lane - lanes / 2| / (lanes / 2)) * 0.5
laneWeight(lane) == 2 * LANES - Abs(2 * lane - LANES)

\* Distance between the center of a lane, lane * laneWidth + laneWidth / 2,
\* and the center of the canvas, in units of canvasWidth / (2 * lanes).
centerDistance(lane) == Abs(2 * lane + 1 - LANES)

RECURSIVE SumWeights(_, _)
SumWeights(weights, n) ==
    IF n = 0 THEN 0 ELSE weights[n] + SumWeights(weights, n - 1)

RECURSIVE weightedRandomFrom(_, _, _, _)
weightedRandomFrom(items, weights, random, i) ==
    IF i > Len(items) THEN items[Len(items)]
    ELSE IF random - weights[i] <= 0 THEN items[i]
    ELSE weightedRandomFrom(items, weights, random - weights[i], i + 1)

\* weightedRandom(items, weights), Math.random() having returned
\* draw / RandomSteps; both sides of the comparison are scaled by RandomSteps.
weightedRandom(items, weights, draw) ==
    weightedRandomFrom(items, [i \in 1..Len(weights) |-> RandomSteps * weights[i]],
                       draw * SumWeights(weights, Len(weights)), 1)

RECURSIVE Ascending(_)
Ascending(lanes) ==
    IF lanes = {} THEN <<>>
    ELSE LET low == CHOOSE l \in lanes : \A m \in lanes : l <= m
         IN  <<low>> \o Ascending(lanes \ {low})

\* selectLane(availableLanes)
selectLane(availableLanes, draw) ==
    LET weights == [i \in 1..Len(availableLanes) |-> laneWeight(availableLanes[i])]
    IN  [weights |-> weights, lane |-> weightedRandom(availableLanes, weights, draw)]

\* The recent-lane memories spawn() can leave: at most recentLaneMemory lanes,
\* no lane twice.
RecentLaneMemories ==
    {<<>>} \cup {<<l>> : l \in 0..(LANES - 1)}
           \cup {q \in (0..(LANES - 1)) \X (0..(LANES - 1)) : q[1] # q[2]}

CallSelectLane ==
    /\ ~events.called
    /\ LET r == selectLane(events.availableLanes, events.draw)
       IN  events' = [events EXCEPT !.called = TRUE, !.weights = r.weights,
                                    !.lane = r.lane]
    /\ UNCHANGED <<pool, lastAcquire, gameState, combo, spawner, loop, frame,
                   input, uiState, storage, session>>

InitLanes ==
    /\ pool = NewPool(INITIAL_POOL_SIZE)
    /\ lastAcquire = NoAcquire
    /\ storage = StorageInit
    /\ gameState = createInitialGameState(getHighScore(storage))
    /\ combo = ComboInit
    /\ loop = LoopInit
    /\ frame = "idle"
    /\ input = InputInit
    /\ uiState = UiInit(getHighScore(storage))
    /\ session = SessionInit
    /\ \E recent \in RecentLaneMemories, draw \in 0..(RandomSteps - 1) :
          /\ spawner = [SpawnerInit EXCEPT !.recentLanes = recent]
          /\ events = [availableLanes |-> Ascending(getAvailableLanes(spawner)),
                       draw |-> draw, called |-> FALSE, weights |-> <<>>,
                       lane |-> 0]

NextLanes == CallSelectLane

SpecLanes == InitLanes /\ [][NextLanes]_vars

(***************************************************************************)
(* The spawn system on its own: a client that calls update, spawn with the *)
(* pool's active count, and reset, and that releases entities it was       *)
(* given.                                                                  *)
(***************************************************************************)
\* events when no method of the spawn system was called yet.  activeCount and
\* rollBad are what the latest spawn() was called with and rolled; obj is the
\* slot it returned (0 for null), lane and type the lane and the type of the
\* entity it returned (-1 and "none" for null).
NoSpawnCall ==
    [op |-> "none", activeCount |-> 0, rollBad |-> FALSE, obj |-> 0, lane |-> -1,
     type |-> "none"]

\* session of the spawn system: the lanes of the entities spawned since the
\* latest reset, the three latest at most; the entities spawned in a row that
\* were not good; whether a spawn() returned null.
SpawnLogInit == [lanes |-> <<>>, badRun |-> 0, refused |-> FALSE]

\* The outcomes of the random draws of one spawn(): any lane selectLane can
\* return, either roll, sprite index 1.
AllSpawnDraws(sp, p) ==
    LET avail == getAvailableLanes(sp)
        lanes == IF avail = {} THEN {0} ELSE avail
        rolls == IF getActiveCount(p) < BadRollActive THEN BOOLEAN ELSE {FALSE}
    IN  {[lane |-> l, rollBad |-> b, spriteIndex |-> 1] : l \in lanes, b \in rolls}

spawnEnv == <<gameState, combo, loop, frame, input, uiState, storage>>

\* update(dt) called by the client
SpawnerCallUpdate ==
    /\ spawner.elapsedTime.a < Ms(MaxElapsed)
    /\ spawner' = SpawnerUpdate(spawner, DblMs(CoarseStep))
    /\ events' = [NoSpawnCall EXCEPT !.op = "update"]
    /\ lastAcquire' = NoAcquire
    /\ UNCHANGED <<pool, session, spawnEnv>>

\* spawn(difficulty, pool.getActiveCount()) called by the client
SpawnerCallSpawn ==
    /\ \E draw \in AllSpawnDraws(spawner, pool) :
          LET activeCount == getActiveCount(pool)
              r == spawn(spawner, pool, activeCount, draw)
              type == IF r.obj = 0 THEN "none" ELSE r.pool[r.obj].type
              last == IF Len(session.lanes) > RECENT_LANE_MEMORY
                      THEN Tail(session.lanes) ELSE session.lanes
          IN  /\ spawner' = r.spawner
              /\ pool' = r.pool
              /\ lastAcquire' = r.acquired
              /\ events' = [op |-> "spawn", activeCount |-> activeCount,
                            rollBad |-> draw.rollBad, obj |-> r.obj,
                            lane |-> IF r.obj = 0 THEN -1 ELSE draw.lane,
                            type |-> type]
              /\ session' =
                    IF r.obj = 0 THEN [session EXCEPT !.refused = TRUE]
                    ELSE [session EXCEPT
                             !.lanes = Append(last, draw.lane),
                             !.badRun = IF type = "good" THEN 0 ELSE @ + 1]
    /\ UNCHANGED spawnEnv

\* reset() called by the client
SpawnerCallReset ==
    /\ spawner' = SpawnerReset
    /\ pool' = releaseAll(pool)
    /\ events' = [NoSpawnCall EXCEPT !.op = "reset"]
    /\ session' = SpawnLogInit
    /\ lastAcquire' = NoAcquire
    /\ UNCHANGED spawnEnv

\* The client releases the entities it was given: getPool().releaseAll()
SpawnerClientRelease ==
    /\ ActiveSlots(pool) # {}
    /\ pool' = releaseAll(pool)
    /\ events' = [NoSpawnCall EXCEPT !.op = "release"]
    /\ lastAcquire' = NoAcquire
    /\ UNCHANGED <<spawner, session, spawnEnv>>

InitSpawn ==
    /\ pool = NewPool(INITIAL_POOL_SIZE)
    /\ lastAcquire = NoAcquire
    /\ storage = StorageInit
    /\ gameState = createInitialGameState(getHighScore(storage))
    /\ combo = ComboInit
    /\ spawner = SpawnerInit
    /\ loop = LoopInit
    /\ frame = "idle"
    /\ input = InputInit
    /\ uiState = UiInit(getHighScore(storage))
    /\ session = SpawnLogInit
    /\ events = NoSpawnCall

NextSpawn ==
    \/ SpawnerCallUpdate
    \/ SpawnerCallSpawn
    \/ SpawnerCallReset
    \/ SpawnerClientRelease

SpecSpawn == InitSpawn /\ [][NextSpawn]_vars

(***************************************************************************)
(* The spawn timer: a client that runs the spawn block of update() once    *)
(* per tick with one difficulty, the lowest or the highest, and that       *)
(* releases entities.  The rolls come out good, in the lowest lane.        *)
(***************************************************************************)
SpawnLevels == {0, MAX_LEVEL}

\* session of the spawn timer: the ticks since the latest spawn() that
\* returned an entity (or since the start), whether the latest tick called
\* spawn() and got null, and whether the tick before the latest had.
SpawnTimerLogInit == [ticks |-> 0, failed |-> FALSE, retried |-> FALSE]

\* update(dt); elapsedTime = getElapsedTime(); if (isReadyToSpawn(difficulty))
\* { spawn(difficulty, pool.getActiveCount()); if (newObj) resetSpawnTimer() }
SpawnTick ==
    /\ spawner.elapsedTime.a < SpawnTicks * TIMESTEP
    /\ LET sp1 == SpawnerUpdate(spawner, TIMESTEP_MS)
           activeCount == getActiveCount(pool)
       IN  IF isReadyToSpawn(sp1, gameState.difficulty)
           THEN \E draw \in {d \in SpawnDraws(sp1) : ~d.rollBad} :
                  LET r == spawn(sp1, pool, activeCount, draw) IN
                  /\ spawner' = IF r.obj # 0
                                THEN [r.spawner EXCEPT !.spawnAccumulator = DblZero]
                                ELSE r.spawner
                  /\ pool' = r.pool
                  /\ lastAcquire' = r.acquired
                  /\ events' = [NoSpawnCall EXCEPT !.op = "spawn",
                                                   !.activeCount = activeCount,
                                                   !.obj = r.obj]
                  /\ session' = [ticks |-> IF r.obj # 0 THEN 0
                                           ELSE session.ticks + 1,
                                 failed |-> r.obj = 0,
                                 retried |-> session.failed]
           ELSE /\ spawner' = sp1
                /\ lastAcquire' = NoAcquire
                /\ events' = [NoSpawnCall EXCEPT !.op = "update"]
                /\ session' = [ticks |-> session.ticks + 1, failed |-> FALSE,
                                retried |-> session.failed]
                /\ UNCHANGED pool
    /\ gameState' = [gameState EXCEPT !.elapsedTime = spawner'.elapsedTime]
    /\ UNCHANGED <<combo, loop, frame, input, uiState, storage>>

\* Entities leave the screen between two ticks.
SpawnTimerRelease ==
    /\ ActiveSlots(pool) # {}
    /\ pool' = releaseAll(pool)
    /\ events' = [NoSpawnCall EXCEPT !.op = "release"]
    /\ lastAcquire' = NoAcquire
    /\ UNCHANGED <<spawner, session, spawnEnv>>

InitSpawnTimer ==
    /\ pool = NewPool(INITIAL_POOL_SIZE)
    /\ lastAcquire = NoAcquire
    /\ storage = StorageInit
    /\ \E level \in SpawnLevels :
          gameState = [createInitialGameState(getHighScore(storage)) EXCEPT
                          !.status = "playing",
                          !.difficulty = [level |-> level]]
    /\ combo = ComboInit
    /\ spawner = SpawnerInit
    /\ loop = LoopInit
    /\ frame = "idle"
    /\ input = InputInit
    /\ uiState = UiInit(getHighScore(storage))
    /\ session = SpawnTimerLogInit
    /\ events = NoSpawnCall

NextSpawnTimer == SpawnTick \/ SpawnTimerRelease

SpecSpawnTimer == InitSpawnTimer /\ [][NextSpawnTimer]_vars

(***************************************************************************)
(* The pool on its own: a client that constructs a pool of some initial    *)
(* size, acquires, spawns into objects it holds, and releases.             *)
(***************************************************************************)
\* Initial sizes the constructor is called with.
PoolInitialSizes ==
    {0, 1, INITIAL_POOL_SIZE, MAX_POOL_SIZE - 1, MAX_POOL_SIZE, MAX_POOL_SIZE + 1}

\* Slots a client call is enumerated for.
PoolArgs(p) == {i \in 1..Len(p) : i <= MaxPoolArg}

PoolAcquire ==
    LET r == acquire(pool) IN
    /\ pool' = r.pool
    /\ lastAcquire' = AcquireResult(r)
    /\ UNCHANGED gameVars

PoolRelease ==
    \E i \in PoolArgs(pool) :
        /\ pool' = release(pool, i)
        /\ lastAcquire' = NoAcquire
        /\ UNCHANGED gameVars

PoolReleaseAll ==
    /\ pool' = releaseAll(pool)
    /\ lastAcquire' = NoAcquire
    /\ UNCHANGED gameVars

\* The holder of an acquired object initialises it (SpawnSystem.spawn does so
\* right after acquire()).
PoolSpawn ==
    \E i \in PoolArgs(pool) :
        /\ pool[i].active
        /\ pool' = [pool EXCEPT ![i] = EntitySpawn(pool[i], "bad", 3)]
        /\ lastAcquire' = NoAcquire
        /\ UNCHANGED gameVars

InitPool ==
    /\ \E n \in PoolInitialSizes : pool = NewPool(n)
    /\ lastAcquire = NoAcquire
    /\ GameInit

NextPool == PoolAcquire \/ PoolRelease \/ PoolReleaseAll \/ PoolSpawn

SpecPool == InitPool /\ [][NextPool]_vars

(***************************************************************************)
(* The loop on its own: a client that starts and stops it between frames   *)
(* and whose update callback may stop it, a host that runs the frame       *)
(* callbacks of a visible document, and a document that is hidden and      *)
(* shown.                                                                  *)
(***************************************************************************)
\* Milliseconds by which real time advances in one step.
ShortWait == 50
LongWait == 250
\* Real time is followed for MaxSinceRef milliseconds after the clock reference.
MaxSinceRef == 300
\* Frame callbacks of a running loop that are followed.
MaxLoopFrames == 3
\* A frame's timestamp is the time the host began the frame: when start() or
\* the visibility handler read the clock in that same frame, up to FrameLead
\* milliseconds before the reading.
FrameLead == 1

loopEnv ==
    <<pool, lastAcquire, gameState, combo, spawner, input, uiState, storage,
      session, events>>

\* start() called by the client
LoopCallStart ==
    /\ frame = "idle"
    /\ ~loop.hidden
    /\ loop.isRunning \/ loop.pending < MaxPending
    /\ loop' = LoopStart(loop)
    /\ UNCHANGED <<loopEnv, frame>>

\* stop() called by the client
LoopCallStop ==
    /\ frame = "idle"
    /\ ~loop.hidden
    /\ loop' = LoopStop(loop)
    /\ UNCHANGED <<loopEnv, frame>>

LoopWait ==
    /\ frame = "idle"
    /\ \E ms \in {ShortWait, LongWait} :
          /\ loop.sinceRef + ms <= MaxSinceRef
          /\ loop' = Elapse(loop, ms)
    /\ UNCHANGED <<loopEnv, frame>>

\* Timestamps the host may pass to the next frame callback, in milliseconds
\* after lastTimestamp.
FrameTimestamps(l) ==
    {l.sinceRef} \cup (IF l.refIsNow /\ l.sinceRef = 0 THEN {-FrameLead} ELSE {})

\* loop(timestamp) of a running loop, up to its while loop
LoopCallback ==
    /\ frame = "idle"
    /\ loop.pending > 0
    /\ loop.isRunning
    /\ ~loop.hidden
    /\ loop.frames < MaxLoopFrames
    /\ \E ts \in FrameTimestamps(loop) :
          loop' = [LoopBegin(TakeFrame(loop), ts) EXCEPT !.frames = @ + 1]
    /\ frame' = "ticks"
    /\ UNCHANGED loopEnv

\* One pass of the while loop: the update callback, which may call stop().
LoopUpdate ==
    /\ frame = "ticks"
    /\ LoopCatchingUp(loop)
    /\ \E stops \in BOOLEAN :
          loop' = LoopTick(IF stops THEN LoopStop(loop) ELSE loop)
    /\ UNCHANGED <<loopEnv, frame>>

\* visibilitychange, the document having become hidden
VisibilityHidden ==
    /\ frame = "idle"
    /\ ~loop.hidden
    /\ loop' = LoopHidden(loop)
    /\ UNCHANGED <<loopEnv, frame>>

\* visibilitychange, the document having become visible
VisibilityVisible ==
    /\ frame = "idle"
    /\ loop.hidden
    /\ loop' = LoopVisible(loop)
    /\ UNCHANGED <<loopEnv, frame>>

NextLoop ==
    \/ LoopCallStart
    \/ LoopCallStop
    \/ LoopWait
    \/ LoopCallback
    \/ LoopFrameStopped
    \/ LoopUpdate
    \/ LoopFrameEnd
    \/ VisibilityHidden
    \/ VisibilityVisible

SpecLoop == Init /\ [][NextLoop]_vars

(***************************************************************************)
(* The combo system on its own: a client that calls hit, miss, update and  *)
(* reset on a fresh ComboSystem.                                           *)
(***************************************************************************)
\* Hits in a row the client makes at most.
MaxComboCount == 51
\* update(dt) is called with about HalfWindow milliseconds.
HalfWindow == 1000
ComboDts == {DblMs(HalfWindow - 1), DblMs(HalfWindow), DblMs(HalfWindow + 1)}

\* events when no method of the combo system was called yet.  dt is the
\* argument of the latest update; sinceHit is the time the update calls made
\* while the combo was active add up to since the latest hit (thirds of a
\* millisecond, without the 2^-60 parts).
NoCall ==
    [op |-> "none", isPerfect |-> FALSE, isSave |-> FALSE, points |-> 0,
     dt |-> DblZero, sinceHit |-> 0]

\* events after update(dt)
UpdateCall(dt) ==
    [NoCall EXCEPT !.op = "update", !.dt = dt,
                   !.sinceHit = IF DblGt(combo.timer, DblZero)
                                THEN events.sinceHit + dt.a ELSE events.sinceHit]

comboEnv ==
    <<pool, lastAcquire, gameState, spawner, loop, frame, input, uiState,
      storage>>

\* hit(isPerfect, isSave) called by the client.  session logs the calls of hit
\* (flags and points returned) since the system was last fresh, up to the hit
\* that reaches the first threshold.
ComboCallHit ==
    /\ combo.count < MaxComboCount
    /\ \E isPerfect \in BOOLEAN, isSave \in BOOLEAN :
          LET call == [NoCall EXCEPT !.op = "hit", !.isPerfect = isPerfect,
                                     !.isSave = isSave,
                                     !.points = HitPoints(combo, isPerfect, isSave)]
          IN  /\ combo' = ComboHit(combo)
              /\ events' = call
              /\ session' = IF combo.count < COMBO_THRESHOLDS[1].count
                            THEN Append(session, call) ELSE <<>>
    /\ UNCHANGED comboEnv

\* miss() called by the client
ComboCallMiss ==
    /\ combo' = ComboMiss(combo)
    /\ events' = [NoCall EXCEPT !.op = "miss"]
    /\ session' = <<>>
    /\ UNCHANGED comboEnv

\* update(dt) called by the client
ComboCallUpdate ==
    /\ \E dt \in ComboDts :
          /\ combo' = ComboUpdate(combo, dt)
          /\ events' = UpdateCall(dt)
    /\ session' = IF combo'.count = 0 THEN <<>> ELSE session
    /\ UNCHANGED comboEnv

\* reset() called by the client
ComboCallReset ==
    /\ combo' = ComboReset(combo)
    /\ events' = [NoCall EXCEPT !.op = "reset"]
    /\ session' = <<>>
    /\ UNCHANGED comboEnv

InitCombo ==
    /\ pool = NewPool(INITIAL_POOL_SIZE)
    /\ lastAcquire = NoAcquire
    /\ storage = StorageInit
    /\ gameState = createInitialGameState(getHighScore(storage))
    /\ spawner = SpawnerInit
    /\ loop = LoopInit
    /\ frame = "idle"
    /\ input = InputInit
    /\ uiState = UiInit(getHighScore(storage))
    /\ combo = ComboInit
    /\ session = <<>>
    /\ events = NoCall

NextCombo == ComboCallHit \/ ComboCallMiss \/ ComboCallUpdate \/ ComboCallReset

SpecCombo == InitCombo /\ [][NextCombo]_vars

(***************************************************************************)
(* The combo system as update() of Game.tsx drives it: hit on a catch of a *)
(* good item, miss, and update(dt) once per tick with the fixed timestep.  *)
(***************************************************************************)
\* A good item is caught: comboSystem.hit(isPerfect, isSave)
ComboCatch ==
    /\ combo.count < MaxComboCount
    /\ \E isPerfect \in BOOLEAN, isSave \in BOOLEAN :
          events' = [NoCall EXCEPT !.op = "hit", !.isPerfect = isPerfect,
                                   !.isSave = isSave,
                                   !.points = HitPoints(combo, isPerfect, isSave)]
    /\ combo' = ComboHit(combo)
    /\ UNCHANGED <<session, comboEnv>>

\* A tick passes: comboSystem.update(dt)
ComboTick ==
    /\ combo' = ComboUpdate(combo, TIMESTEP_MS)
    /\ events' = UpdateCall(TIMESTEP_MS)
    /\ UNCHANGED <<session, comboEnv>>

NextDecay == ComboCatch \/ ComboTick \/ ComboCallMiss

SpecDecay == InitCombo /\ [][NextDecay]_vars

(***************************************************************************)
(* Properties of the game (under Spec)                                     *)
(***************************************************************************)
\* States the functions of LivesSystem.ts are applied to.
LivesInputs ==
    {[createInitialGameState(0) EXCEPT
          !.status = st, !.lives = l, !.score = sc, !.isInvulnerable = inv,
          !.invulnerabilityTimer = IF inv THEN t ELSE DblZero] :
        st \in {"playing", "paused"}, l \in 1..MAX_LIVES, sc \in {0, MaxScore},
        inv \in BOOLEAN,
        t \in {TIMESTEP_MS, Dbl(INVULNERABILITY_DURATION, 0)}}

\* What loseLife(s) must return for a state s that is not invulnerable.
LoseLifeFromVulnerable(s) ==
    LET r == loseLife(s) IN
    /\ r.lives = s.lives - 1
    /\ r.lives > 0 => /\ r.isInvulnerable
                      /\ r.invulnerabilityTimer = Dbl(INVULNERABILITY_DURATION, 0)
                      /\ r.status = s.status
    /\ r.lives = 0 => r.status = "gameOver"

\* C1: a life lost from the Vulnerable state.  loseLife applied to a state that
\* is not invulnerable takes exactly one life; if lives stay above 0 the player
\* becomes invulnerable with the timer at invulnerabilityDuration and the status
\* is unchanged; if lives reach 0 the status becomes gameOver.  In the game, an
\* update that calls loseLife ends with exactly that (the timer one timestep
\* further down when the life was lost in the missed loop, which runs before
\* updateInvulnerability).
C1_LifeLoss ==
    [][/\ \A s \in LivesInputs : ~s.isInvulnerable => LoseLifeFromVulnerable(s)
       /\ events'.lostLife =>
            /\ gameState'.lives = gameState.lives - 1
            /\ gameState'.lives > 0 =>
                  /\ gameState'.isInvulnerable
                  /\ gameState'.invulnerabilityTimer \in
                        {Dbl(INVULNERABILITY_DURATION, 0),
                         DblSub(Dbl(INVULNERABILITY_DURATION, 0), TIMESTEP_MS)}
                  /\ gameState'.status = gameState.status
            /\ gameState'.lives = 0 => gameState'.status = "gameOver"]_vars

\* A bad catch has just cost the first life of a session.
C1_Witness ==
    /\ events.lostLife
    /\ events.bad > 0
    /\ gameState.lives = INITIAL_LIVES - 1
    /\ gameState.isInvulnerable
    /\ gameState.invulnerabilityTimer = Dbl(INVULNERABILITY_DURATION, 0)
    /\ gameState.status = "playing"

\* C2: contacts are absorbed while Invulnerable.  loseLife returns an
\* invulnerable state unchanged, and a tick of the game that starts invulnerable
\* and stays so (the timer outlasts the tick) changes neither lives nor, except
\* by pausing, the status.
C2_InvulnerableAbsorbs ==
    [][/\ \A s \in LivesInputs : s.isInvulnerable => loseLife(s) = s
       /\ (/\ frame = "ticks"
           /\ gameState.status = "playing"
           /\ gameState.isInvulnerable
           /\ DblGt(gameState.invulnerabilityTimer, TIMESTEP_MS))
          => /\ gameState'.lives = gameState.lives
             /\ \/ gameState'.status = gameState.status
                \/ input.ref /\ gameState'.status = "paused"]_vars

\* An update in which a good item was missed or a bad one caught while the
\* player was invulnerable.
C2_Witness ==
    /\ events.missed \/ events.bad > 0
    /\ ~events.lostLife
    /\ gameState.isInvulnerable
    /\ gameState.status = "playing"

\* C3: a session that reached GameOver has had recordGamePlayed called exactly
\* once, whatever ticks and clicks followed.
C3_FinalizedOnce == session.over => session.records = 1

\* C4: GameOver is absorbing.  From a state with status gameOver a step either
\* leaves the game state, the combo and the entities as they are, or replaces
\* the game state by a freshly constructed one (menu or playing) with the combo
\* reset and every entity released.
C4_GameOverAbsorbing ==
    [][gameState.status = "gameOver" =>
         \/ /\ gameState' = gameState
            /\ combo' = combo
            /\ pool' = pool
         \/ /\ gameState'.status \in {"menu", "playing"}
            /\ gameState' = [createInitialGameState(gameState'.highScore) EXCEPT
                                 !.status = gameState'.status]
            /\ combo' = ComboInit
            /\ ActiveSlots(pool') = {}]_vars

\* A catch-up tick has run on a finished game.
C4_Witness == gameState.status = "gameOver" /\ events.skipped

\* C5: the score is never negative.
C5_ScoreNonNegative == gameState.score >= 0 /\ uiState.score >= 0

\* A penalty larger than the positive score has just been applied.
C5_Witness ==
    /\ events.bad > 0
    /\ events.lostPoints > 0
    /\ events.lostPoints < MINOR_PENALTY
    /\ gameState.score = 0

\* C6: lives stay between 0 and maxLives.
C6_LivesInRange == 0 <= gameState.lives /\ gameState.lives <= gameState.maxLives

\* The last life has just been lost.
C6_Witness == events.lostLife /\ gameState.lives = 0

\* C10: every inactive slot of the pool holds the reset defaults.
C10_InactiveSlotsReset ==
    \A i \in 1..Len(pool) : ~pool[i].active => InResetState(pool[i])

\* The first slot has been handed out, spawned, and released by a catch.
C10_Witness == events.good + events.bad > 0 /\ ~pool[1].active

\* C12: while the loop is stopped the host holds no frame callback of it and
\* update() is not called; the host never holds more than one frame callback.
C12_StopCancelsEverything ==
    /\ ~loop.isRunning => loop.pending = 0 /\ ~events.skipped
    /\ loop.pending <= 1

\* C16: from the tick in which the pause takes effect until the game is
\* resumed, score, lives, invulnerability, difficulty, the entities, the combo
\* and the spawn timers stay as they are; resuming changes the status only, and
\* a frame callback whose timestamp is the time of the resume runs no tick.
C16_PauseResumeRoundTrip ==
    [][(gameState.status = "paused" /\ gameState'.status # "menu") =>
          /\ [gameState' EXCEPT !.status = "paused"] = gameState
          /\ pool' = pool
          /\ combo' = combo
          /\ spawner' = spawner
          /\ gameState'.status = "playing" =>
                ~LoopCatchingUp(LoopBegin(TakeFrame(loop'), loop'.sinceRef))]_vars

\* The game was paused in the middle of a frame's catch-up ticks and has just
\* been resumed.
C16_Witness ==
    /\ gameState.status = "playing"
    /\ loop.isRunning
    /\ loop.refIsNow
    /\ loop.ticks > 1
    /\ spawner.elapsedTime.a > 0

C7_PoolBounded ==
    /\ getActiveCount(pool) <= getPoolSize(pool)
    /\ getPoolSize(pool) <= MAX_POOL_SIZE

\* C8: acquire() on a pool of the maximum size whose slots are all active
\* returns null and changes neither the size nor any slot.
C8_FullPoolReturnsNull ==
    [][(/\ lastAcquire'.called
        /\ getPoolSize(pool) = MAX_POOL_SIZE
        /\ getActiveCount(pool) = MAX_POOL_SIZE)
       => lastAcquire'.obj = 0 /\ pool' = pool]_vars

\* acquire() has just returned null on a full pool of the maximum size.
C8_Witness ==
    /\ lastAcquire.called
    /\ lastAcquire.obj = 0
    /\ getPoolSize(pool) = MAX_POOL_SIZE
    /\ getActiveCount(pool) = MAX_POOL_SIZE

\* C9: the object acquire() returns is active and has had reset() called on it.
C9_AcquiredIsReset ==
    (lastAcquire.called /\ lastAcquire.obj # 0)
        => pool[lastAcquire.obj].active /\ lastAcquire.wasReset

\* C11: the slot acquire() returns either was the first inactive slot in pool
\* order before the call, and then the pool keeps its size, or is the one slot
\* the pool grew by, and then every slot was active before the call; the pool
\* never changes its size in any other way.
C11_AcquireHandsOutFreeSlot ==
    [][lastAcquire'.called =>
         LET i == lastAcquire'.obj
             n == getPoolSize(pool)
         IN  /\ i # 0 =>
                 \/ /\ i \in 1..n
                    /\ ~pool[i].active
                    /\ \A j \in 1..(i - 1) : pool[j].active
                    /\ getPoolSize(pool') = n
                 \/ /\ i = n + 1
                    /\ getPoolSize(pool') = n + 1
                    /\ ActiveSlots(pool) = 1..n
             /\ getPoolSize(pool') # n =>
                 getPoolSize(pool') = n + 1 /\ ActiveSlots(pool) = 1..n
             /\ \A j \in ActiveSlots(pool) : pool'[j] = pool[j]]_vars

\* acquire() has just handed out slot 1 again, released after the pool had
\* grown to two slots, while slot 2 is still held.
C11_Witness ==
    /\ lastAcquire.called
    /\ lastAcquire.obj = 1
    /\ ~lastAcquire.grew
    /\ getPoolSize(pool) = 2
    /\ pool[2].active

(***************************************************************************)
(* Properties of the loop (under SpecLoop)                                 *)
(***************************************************************************)
\* C13: when loop(timestamp) has left its while loop and calls render, the
\* alpha it passes, accumulator / TIMESTEP, is at least 0 and below 1.
C13_AlphaInRange ==
    (frame = "ticks" /\ ~LoopCatchingUp(loop)) => AlphaInRange(loop)

\* C14: one frame callback makes at most 15 update calls.
C14_CatchUpBounded == loop.ticks <= 15

\* C15: while the document is hidden a running loop has no frame callback
\* scheduled and runs no tick; the step in which the document becomes visible
\* again sets the clock reference to now and the accumulator to zero and leaves
\* exactly one frame callback scheduled.
C15_HiddenLoopSuspended ==
    [][/\ (loop.hidden /\ loop.isRunning) => (loop.pending = 0 /\ frame = "idle")
       /\ (loop.hidden /\ ~loop'.hidden /\ loop.isRunning) =>
             /\ loop'.sinceRef = 0
             /\ loop'.accumulator = Dbl(0, 0)
             /\ loop'.pending = 1]_vars

\* C17: start() on a running loop and stop() on a stopped loop return the loop
\* as it is, so a second start() or stop() in a row changes nothing.
C17_StartStopIdempotent ==
    /\ loop.isRunning => LoopStart(loop) = loop
    /\ ~loop.isRunning => LoopStop(loop) = loop
    /\ LoopStart(LoopStart(loop)) = LoopStart(loop)
    /\ LoopStop(LoopStop(loop)) = LoopStop(loop)

\* A running loop in the middle of its frames, with a frame scheduled, a
\* residue in the accumulator and time gone by since the clock reference; and
\* a stopped one that has run frames.
C17_Witness ==
    \/ /\ loop.isRunning
       /\ loop.pending = 1
       /\ loop.frames = 2
       /\ loop.accumulator # Dbl(0, 0)
       /\ loop.sinceRef > 0
    \/ /\ ~loop.isRunning
       /\ loop.frames = 2
       /\ loop.sinceRef > 0


(***************************************************************************)
(* Properties of the combo system (under SpecCombo)                        *)
(***************************************************************************)
\* What five hits without bonus return on a fresh system.
FivePlainHits == <<10, 10, 10, 10, 15>>

\* C19: a call of hit() never lowers the multiplier and leaves it at the
\* multiplier of the highest threshold whose count the number of consecutive
\* hits has reached, 1 (10 tenths) if it has reached none; miss() leaves count
\* 0, multiplier 1 and timer 0.
C19_MultiplierFollowsThresholds ==
    [][/\ events'.op = "hit" =>
            LET met == {k \in 1..Len(COMBO_THRESHOLDS) :
                            COMBO_THRESHOLDS[k].count <= combo'.count}
                top == CHOOSE k \in met : \A j \in met :
                            COMBO_THRESHOLDS[j].count <= COMBO_THRESHOLDS[k].count
            IN  /\ combo'.count = combo.count + 1
                /\ combo'.multiplier >= combo.multiplier
                /\ combo'.multiplier = IF met = {} THEN 10
                                       ELSE COMBO_THRESHOLDS[top].multiplier
       /\ events'.op = "miss" =>
            combo'.count = 0 /\ combo'.multiplier = 10 /\ combo'.timer = DblZero]_vars

\* The fiftieth hit in a row has just raised the multiplier to 5.
C19_Witness ==
    /\ events.op = "hit"
    /\ combo.count = 50
    /\ combo.multiplier = 50

\* C20: the points hit(isPerfect, isBonus) returned are the floor of base x
\* perfect factor (1.5) x bonus factor (2) x the multiplier the system holds
\* after the call; five hits without bonus on a fresh system have returned 10,
\* 10, 10, 10, 15 and left count 5 and multiplier 1.5.
C20_HitScore ==
    /\ events.op = "hit" =>
          LET twentieths == BASE_SCORE * (IF events.isPerfect THEN 3 ELSE 2)
                                * (IF events.isSave THEN 2 ELSE 1)
                                * combo.multiplier
          IN  /\ 20 * events.points <= twentieths
              /\ twentieths < 20 * (events.points + 1)
    /\ (/\ Len(session) = Len(FivePlainHits)
        /\ \A i \in 1..Len(session) :
              ~session[i].isPerfect /\ ~session[i].isSave)
          => /\ [i \in 1..Len(session) |-> session[i].points] = FivePlainHits
             /\ combo.count = 5
             /\ combo.multiplier = 15

\* Five hits without bonus were made on a fresh system.
C20_Witness ==
    /\ events.op = "hit"
    /\ Len(session) = Len(FivePlainHits)
    /\ \A i \in 1..Len(session) : ~session[i].isPerfect /\ ~session[i].isSave

\* C21: an update(dt) made while the combo is active takes dt off the timer;
\* it resets the combo (count 0, multiplier 1, timer 0) when the updates since
\* the latest hit add up to maxTimer or more, and leaves count and multiplier
\* alone when they add up to less.
C21_ComboDecay ==
    [][(events'.op = "update" /\ DblGt(combo.timer, DblZero)) =>
          IF events'.sinceHit >= COMBO_WINDOW
          THEN combo' = ComboInit
          ELSE /\ combo'.count = combo.count
               /\ combo'.multiplier = combo.multiplier
               /\ combo'.timer.a = combo.timer.a - events'.dt.a
               /\ combo'.timer.a = COMBO_WINDOW - events'.sinceHit]_vars

\* A combo has just run out in the update that completed maxTimer of game
\* ticks since the latest hit.
C21_Witness ==
    /\ events.op = "update"
    /\ events.dt = TIMESTEP_MS
    /\ events.sinceHit = COMBO_WINDOW
    /\ combo = ComboInit

(***************************************************************************)
(* Properties of a run (under SpecRun)                                     *)
(***************************************************************************)
\* C22: after every tick the stored difficulty is calculateDifficulty of the
\* score the tick ended with.
C22_DifficultyFollowsScore ==
    gameState.difficulty = calculateDifficulty(gameState.score)

(***************************************************************************)
(* Properties of calculateDifficulty (under SpecDifficulty)                *)
(***************************************************************************)
\* C23: the level is the number of whole scorePerLevel in the score, at most
\* maxLevel; of two scores the higher one has a spawnInterval that is not
\* longer and a fallSpeed and a badItemRatio that are not lower; score 0 gives
\* the initial values and a score of maxLevel * scorePerLevel or more the
\* maximum values.
C23_DifficultyMonotone ==
    LET lo == IF events.earlier.score <= events.latest.score
              THEN events.earlier ELSE events.latest
        hi == IF events.earlier.score <= events.latest.score
              THEN events.latest ELSE events.earlier
        initial == [spawnInterval |-> INITIAL_SPAWN_INTERVAL * 1250,
                    fallSpeed |-> Px(INITIAL_FALL_SPEED) \div 60,
                    badItemRatio |-> INITIAL_BAD_ITEM_RATIO * 1250]
        max == [spawnInterval |-> MAX_SPAWN_INTERVAL * 1250,
                fallSpeed |-> Px(MAX_FALL_SPEED) \div 60,
                badItemRatio |-> MAX_BAD_ITEM_RATIO * 1250]
        Params(call) == [spawnInterval |-> call.spawnInterval,
                         fallSpeed |-> call.fallSpeed,
                         badItemRatio |-> call.badItemRatio]
    IN  /\ hi.level <= MAX_LEVEL
        /\ hi.level * SCORE_PER_LEVEL <= hi.score
        /\ hi.level < MAX_LEVEL => hi.score < (hi.level + 1) * SCORE_PER_LEVEL
        /\ lo.spawnInterval >= hi.spawnInterval
        /\ lo.fallSpeed <= hi.fallSpeed
        /\ lo.badItemRatio <= hi.badItemRatio
        /\ lo.score = 0 => Params(lo) = initial
        /\ hi.score >= MAX_LEVEL * SCORE_PER_LEVEL => Params(hi) = max

\* calculateDifficulty was called with a score in the last level below
\* maxLevel and with one beyond maxLevel * scorePerLevel.
C23_Witness ==
    /\ events.earlier.score = MAX_LEVEL * SCORE_PER_LEVEL - 1
    /\ events.latest.score > MAX_LEVEL * SCORE_PER_LEVEL + SCORE_PER_LEVEL
    /\ events.earlier.level < events.latest.level

(***************************************************************************)
(* Properties of the spawn system (under SpecSpawn)                        *)
(***************************************************************************)
\* C24: a spawn() called with activeCount >= maxItemsOnScreen returns null and
\* leaves the pool as it is, and with callers that pass the pool's active
\* count the active entities never are more than maxItemsOnScreen.
C24_ScreenNeverOverfull ==
    [][/\ (events'.op = "spawn" /\ events'.activeCount >= MAX_ITEMS_ON_SCREEN) =>
              events'.obj = 0 /\ pool' = pool
       /\ getActiveCount(pool') <= MAX_ITEMS_ON_SCREEN]_vars

\* spawn() has just refused because maxItemsOnScreen entities are active.
C24_Witness ==
    /\ events.op = "spawn"
    /\ events.activeCount = MAX_ITEMS_ON_SCREEN
    /\ events.obj = 0
    /\ getActiveCount(pool) = MAX_ITEMS_ON_SCREEN

\* The latest recentLaneMemory entries of a sequence of lanes.
LatestLanes(q) == SubSeq(q, Max(1, Len(q) - RECENT_LANE_MEMORY + 1), Len(q))

\* C25: the lane of a spawned entity is none of the lanes of the latest
\* recentLaneMemory entities spawned before it; recentLanes never holds more
\* than recentLaneMemory entries; three lanes selected in a row are pairwise
\* distinct.
C25_LanesSpread ==
    [][/\ (events'.op = "spawn" /\ events'.lane >= 0) =>
              events'.lane \notin SeqRange(LatestLanes(session.lanes))
       /\ Len(spawner'.recentLanes) <= RECENT_LANE_MEMORY
       /\ \A i, j \in 1..Len(session'.lanes) :
              i # j => session'.lanes[i] # session'.lanes[j]]_vars

\* Three entities were spawned in a row: the memory is full and does not hold
\* the lane of the first of them any more.
C25_Witness ==
    /\ events.op = "spawn"
    /\ Len(session.lanes) = RECENT_LANE_MEMORY + 1
    /\ events.lane = session.lanes[Len(session.lanes)]
    /\ Len(spawner.recentLanes) = RECENT_LANE_MEMORY
    /\ session.lanes[1] \notin SeqRange(spawner.recentLanes)

\* C26: among any guaranteedGoodEvery entities spawned in a row there is a good
\* one, that is, fewer than guaranteedGoodEvery in a row are not good.
C26_GoodInEveryWindow == session.badRun < GUARANTEED_GOOD_EVERY

\* C27: an entity spawned while the elapsed time of the spawn system is below
\* gracePeriodStart is good, whatever Math.random() < badItemRatio gave.
C27_GraceIsGood ==
    [][(/\ events'.op = "spawn"
        /\ events'.obj # 0
        /\ ~DblGe(spawner.elapsedTime, Dbl(GRACE_PERIOD_START, 0))) =>
          events'.type = "good"]_vars

\* An entity was spawned in the grace period, after an update, with a roll
\* that came out bad.
C27_Witness ==
    /\ events.op = "spawn"
    /\ events.rollBad
    /\ events.type = "good"
    /\ DblGt(spawner.elapsedTime, DblZero)
    /\ ~DblGe(spawner.elapsedTime, Dbl(GRACE_PERIOD_START, 0))

C29_SpawnTiming ==
    [][events'.op \in {"spawn", "update"} =>
          LET interval == IF gameState.difficulty.level = 0
                          THEN INITIAL_SPAWN_INTERVAL ELSE MAX_SPAWN_INTERVAL
              accumulated == DblAdd(spawner.spawnAccumulator, TIMESTEP_MS)
          IN  /\ events'.op = "spawn" <=> DblGe(accumulated, Dbl(interval, 0))
              /\ spawner'.spawnAccumulator =
                    IF events'.obj # 0 THEN DblZero ELSE accumulated
              /\ events'.obj # 0 => (session.ticks + 1) * TIMESTEP >= interval
              /\ session.failed => events'.op = "spawn"]_vars

\* spawn() returned null in one tick and, called again, an entity in the next.
C29_Witness ==
    /\ events.op = "spawn"
    /\ events.obj # 0
    /\ session.retried
    /\ spawner.spawnAccumulator = DblZero

(***************************************************************************)
(* Properties of checkCollisions (under SpecCollision)                     *)
(***************************************************************************)
\* Two intervals share more than a point.
SharesLength(lo1, hi1, lo2, hi2) == Min(hi1, hi2) - Max(lo1, lo2) > 0

\* The hitbox of an object of the latest call shares an area with the
\* player's hitbox widened by pad on every side (pad < 0 narrows it).
HitboxMeets(obj, pad) ==
    LET player == events.player
        left == player.x + Px(PLAYER_ASSET.hitbox.offsetX) - pad
        right == player.x + Px(PLAYER_ASSET.hitbox.offsetX
                               + PLAYER_ASSET.hitbox.width) + pad
        top == player.y + Px(PLAYER_ASSET.hitbox.offsetY) - pad
        bottom == player.y + Px(PLAYER_ASSET.hitbox.offsetY
                                + PLAYER_ASSET.hitbox.height) + pad
    IN  /\ SharesLength(left, right, obj.x + Px(obj.hitbox.offsetX),
                        obj.x + Px(obj.hitbox.offsetX + obj.hitbox.width))
        /\ SharesLength(top, bottom, obj.y + Px(obj.hitbox.offsetY),
                        obj.y + Px(obj.hitbox.offsetY + obj.hitbox.height))

\* The object's sprite reaches into the lowest NEUTRAL_ZONE_HEIGHT px of the
\* canvas the latest call was given.
InNeutralZoneOf(obj) ==
    /\ events.canvasHeight # 0
    /\ obj.y + Px(obj.height) > Px(events.canvasHeight - NEUTRAL_ZONE_HEIGHT)

\* Indexes of the objects of the latest call that are to be reported.
Caught ==
    {i \in 1..Len(events.objects) :
        /\ events.objects[i].active
        /\ ~InNeutralZoneOf(events.objects[i])
        /\ HitboxMeets(events.objects[i], Px(CATCH_ZONE_PADDING))}

Cells(box) ==
    {<<i, j>> \in (0..(MaxCoord + MaxSide)) \X (0..(MaxCoord + MaxSide)) :
        /\ box.x <= i /\ i + 1 <= box.x + box.width
        /\ box.y <= j /\ j + 1 <= box.y + box.height}

CaughtBadSlots ==
    {i \in 1..Len(pool) :
        /\ pool[i].active
        /\ pool[i].type = "bad"
        /\ MoveEntity(pool[i], gameState.difficulty).active
        /\ ~pool'[i].active}

C34_FullInvulnerability ==
    [][(events'.lostLife /\ session.lost)
          => session.sinceLoss + 1 >= InvulnerabilityTicks]_vars

(***************************************************************************)
(* Properties of missed items (under Spec)                                 *)
(***************************************************************************)
\* The slots whose item of the given type leaves the canvas by the movement of
\* the tick that starts in this state.
LeavingSlots(type) ==
    {i \in 1..Len(pool) :
        /\ pool[i].active
        /\ pool[i].type = type
        /\ ~MoveEntity(pool[i], gameState.difficulty).active}

\* C35: in the tick in which good items leave the canvas the miss is handled:
\* the combo is reset (it counts only catches made later in the tick) and a
\* player who is vulnerable loses exactly one life, however many items leave;
\* a tick in which only bad items leave handles no miss and, unless a bad item
\* is caught in it, takes no life.
C35_MissedInLeavingTick ==
    [][(frame = "ticks" /\ gameState.status = "playing" /\ pool' # pool) =>
          /\ events'.missed <=> LeavingSlots("good") # {}
          /\ LeavingSlots("good") # {} =>
                /\ combo'.count <= events'.good
                /\ ~gameState.isInvulnerable =>
                      gameState'.lives = gameState.lives - 1
          /\ (LeavingSlots("good") = {} /\ events'.bad = 0) =>
                gameState'.lives = gameState.lives]_vars

(***************************************************************************)
(* Properties of saveable items (under Spec)                               *)
(***************************************************************************)
\* C36: a good item that has become saveable can still be caught: while its
\* hitbox overlaps the catch zone, it is among the entities checkCollisions
\* reports (and hit is then called with isSave = true).
C36_SaveableCatchable ==
    \A i \in 1..Len(pool) :
       (/\ pool[i].active
        /\ pool[i].type = "good"
        /\ pool[i].isSaveable
        /\ OverlapsY(CatchZone, pool[i])) => i \in Catchable(pool)

(***************************************************************************)
(* Properties of the combo milestone sounds (under SpecMilestone)          *)
(***************************************************************************)
\* C37: every catch that brings the combo count to 5, 10 or 20 plays that
\* milestone's sound, in every combo run of the session, and no other tick
\* plays one.
C37_MilestoneEveryReach ==
    /\ (events.good = 1 /\ combo.count \in COMBO_MILESTONES)
          => session.played = combo.count
    /\ session.played # 0 => (events.good = 1 /\ combo.count = session.played)

(***************************************************************************)
(* Properties of the game-over screen (under Spec)                         *)
(***************************************************************************)
\* C38: while the game-over screen is shown, the score and the lives of the UI
\* snapshot are those of the game state, the score being the one that was
\* passed to recordGamePlayed.
C38_GameOverShowsFinalState ==
    uiState.status = "gameOver" =>
       /\ uiState.score = gameState.score
       /\ uiState.lives = gameState.lives

(***************************************************************************)
(* Properties of selectLane (under SpecLanes)                              *)
(***************************************************************************)
\* C39: the weight of a lane does not increase with the distance between the
\* center of the lane and the center of the canvas, so two lanes at the same
\* distance, such as the mirror lanes i and lanes - 1 - i, have equal weight.
C39_WeightFollowsCenterDistance ==
    events.called =>
       \A i, j \in 1..Len(events.availableLanes) :
          centerDistance(events.availableLanes[i])
                <= centerDistance(events.availableLanes[j])
             => events.weights[i] >= events.weights[j]

(***************************************************************************)
(* Properties of the grace period in the game (under Spec)                 *)
(***************************************************************************)
\* C40: the first entity spawned in a session (the lane memory is empty until
\* then) is spawned while the elapsed time of the spawn system is below
\* gracePeriodStart, and it is good.
C40_FirstItemInGracePeriod ==
    [][(/\ spawner.recentLanes = <<>>
        /\ lastAcquire'.called
        /\ lastAcquire'.obj # 0) =>
          /\ ~DblGe(spawner'.elapsedTime, Dbl(GRACE_PERIOD_START, 0))
          /\ pool'[lastAcquire'.obj].type = "good"]_vars
====
